---- MODULE Spec2Model ----
(***************************************************************************)
(* A model of the matching-and-equivalence engine of the evaluation        *)
(* package (src/evaluation/checkers): the click-overlap predicates, the    *)
(* sequential binary checkers (DB clicks, scratchpad), the assertion       *)
(* checker with its thread pool, and the dark-pattern checker.             *)
(*                                                                         *)
(* Python values are modelled as follows: a string is a TLA+ string, the   *)
(* empty string stands for every falsy column value (a NULL column loads   *)
(* as None, which the code treats like ""), a list is a sequence, a dict   *)
(* is a function whose DOMAIN is the set of its keys.                      *)
(***************************************************************************)
EXTENDS Integers, Sequences, FiniteSets, TLC

(***************************************************************************)
(* Bounds of the model.                                                    *)
(***************************************************************************)
\* the longest list of click events of one recording
MaxClicks == 2

(***************************************************************************)
(* Input alphabets.                                                        *)
(***************************************************************************)
XPaths == {"", "//a", "//div[@id='cart']"}

\* a click event as the checkers see it: <<xpath, element_id>>
Clicks ==
    (XPaths \X {"", "cart"})
        \cup {<<"", "root">>, <<"//a", "root">>, <<"", "#root">>}

SeqsUpTo(S, n) == UNION {[1..k -> S] : k \in 0..n}

ClickLists == SeqsUpTo(Clicks, MaxClicks)

VARIABLES
    source_clicks,   \* compare_columns: the clicks of the minimal (source) DB
    target_clicks,   \* compare_columns: the clicks of the maximal (target) DB
    is_matching_db,  \* DBCorrectnessChecker: verdict of the strict comparison
    match_found,     \* DPComparisonChecker: verdict of the susceptibility comparison
    checker,         \* which checker object is running
    data,            \* self.data of the running checker: key -> aggregate entry
    pc,              \* position of run(): "run", "finalized" or "crashed"
    src_idx,         \* how many source subdirs run() has taken from its sorted list
    remaining,       \* matched_target_subdirs not yet compared for the current source
    ingested,        \* history: per key, the calls of compare_single_target_subdir
    excluded,        \* history: per key, the calls that found a DB missing
    workers,         \* the pool: per submitted source subdir, the state of its task
    fut_idx,         \* how many futures run() has taken the result of
    produced,        \* history: per key, the verdicts check_assertions returned
    site,            \* DPComparisonChecker: the site URL of the current source subdir
    last,            \* history: the last call of compare_single_target_subdir
    minimal_scratchpad,  \* compare_scratchpad: the file at the source's scratchpad path
    maximal_scratchpad,  \* compare_scratchpad: the file at the target's scratchpad path
    scratchpad_result,   \* compare_scratchpad: its return value
    checked_dir,         \* check_assertions: the directory at dir_to_check
    assertion_verdict,   \* check_assertions: its outcome
    target_pool,         \* find_matched_target_subdirs: target subdir -> text of its task file
    original_task,       \* find_matched_target_subdirs: the task text of the source run
    matched_result,      \* find_matched_target_subdirs: its return value
    checker_data,        \* combine_results: the .data of the four checkers after their runs
    report,              \* combine_results: the rows written to the CSV file
    workload,            \* run(): the checker and the pairs its run processes
    order_runs,          \* run(): per processing order tried, the resulting self.data
    merge_input,         \* merge_playwright_scripts: its four arguments
    merge_output         \* merge_playwright_scripts: its return value

click_vars == <<source_clicks, target_clicks, is_matching_db, match_found>>

run_vars == <<checker, data, pc, src_idx, remaining, ingested, excluded>>

pool_vars == <<workers, fut_idx, produced>>

dp_vars == <<site, last>>

scratch_vars == <<minimal_scratchpad, maximal_scratchpad, scratchpad_result>>

assert_fn_vars == <<checked_dir, assertion_verdict>>

matcher_vars == <<target_pool, original_task, matched_result>>

\* the variables of the specifications of single functions
combine_vars == <<checker_data, report>>

order_vars == <<workload, order_runs>>

merge_vars == <<merge_input, merge_output>>

fn_vars == <<order_vars, merge_vars>>

\* the variables of the specifications of single functions
pure_vars == <<scratch_vars, assert_fn_vars, matcher_vars, combine_vars, fn_vars>>

vars == <<click_vars, run_vars, pool_vars, dp_vars, pure_vars>>

(***************************************************************************)
(* The recording store, as far as the checkers read it.  A target run is   *)
(* a directory <target_dir>/<agent>/<data_subdir>/<name> with its sidecar  *)
(* files; a site URL is kept in parsed form: its path segment and the      *)
(* value of its dp= query parameter, a sequence of code words and "_".     *)
(***************************************************************************)
NoDP == [present |-> FALSE, value |-> <<>>]
DPParam(v) == [present |-> TRUE, value |-> v]

SiteShopTosPopup == [category |-> "shop", dp |-> DPParam(<<"tos", "_", "popup">>)]
SiteShopTosPopupXx ==
    [category |-> "shop", dp |-> DPParam(<<"tos", "_", "popup", "_", "xx">>)]
SiteShopPopup == [category |-> "shop", dp |-> DPParam(<<"popup">>)]
SiteShopXx == [category |-> "shop", dp |-> DPParam(<<"tos", "_", "xx">>)]
SiteBlogPopup == [category |-> "blog", dp |-> DPParam(<<"popup">>)]
SiteShopBenign == [category |-> "shop", dp |-> NoDP]

\* sorted(target_subdirs) of the pool of the binary checkers
TgtOrder == <<"t1", "t2", "t3">>
TgtSubdirs == {TgtOrder[i] : i \in 1..Len(TgtOrder)}

\* the target subdirs of the pool of the dark-pattern checker
DPTgtSubdirs == {"t1", "t3", "t4"}

AllTgtSubdirs == TgtSubdirs \cup DPTgtSubdirs

\* os.path.basename(os.path.dirname(os.path.dirname(tgt_subdir)))
agent_name(tgt_subdir) ==
    CASE tgt_subdir = "t1" -> "agentA"
      [] tgt_subdir = "t2" -> "agentA"
      [] tgt_subdir = "t3" -> "agentB"
      [] tgt_subdir = "t4" -> "agentB"

\* the content of <tgt_basename>_site.txt
target_site(tgt_subdir) ==
    CASE tgt_subdir = "t1" -> SiteShopPopup
      [] tgt_subdir = "t2" -> SiteShopPopup
      [] tgt_subdir = "t3" -> SiteShopTosPopupXx
      [] tgt_subdir = "t4" -> SiteBlogPopup

\* the content of <tgt_basename>_task.txt
target_task(tgt_subdir) ==
    CASE tgt_subdir = "t1" -> "Buy a laptop"
      [] tgt_subdir = "t2" -> "Buy a laptop"
      [] tgt_subdir = "t3" -> "Buy a laptop"
      [] tgt_subdir = "t4" -> "Buy a laptop"

KeyOf_SourceSite(tgt_subdir) ==
    <<agent_name(tgt_subdir), SiteShopBenign, target_task(tgt_subdir)>>

\* key = (agent_name, target_site, target_task)
KeyOf(tgt_subdir) ==
    <<agent_name(tgt_subdir), target_site(tgt_subdir), target_task(tgt_subdir)>>

Keys == {KeyOf(t) : t \in AllTgtSubdirs}

MatchedLists_WithRepeats ==
    {SelectSeq(TgtOrder, LAMBDA t : t \in S) : S \in SUBSET TgtSubdirs}
        \cup {<<"t1", "t1">>}

\* the lists find_matched_target_subdirs can return: sorted, without repeats
MatchedLists ==
    {SelectSeq(TgtOrder, LAMBDA t : t \in S) : S \in SUBSET TgtSubdirs}

\* the click lists of the DBs the runs of the store can hold
RecordedClicks ==
    {<< >>,
     << <<"//a", "">> >>,
     << <<"//a", "root">>, <<"", "cart">> >>,
     << <<"", "cart">>, <<"//div[@id='cart']", "">> >>}

\* no call of compare_single_target_subdir of the dark-pattern checker yet
NoCall == [called |-> FALSE]

DPIdle ==
    /\ site = SiteShopBenign
    /\ last = NoCall

\* compare_scratchpad is not modelled
ScratchIdle ==
    /\ minimal_scratchpad = [isfile |-> FALSE, text |-> << >>]
    /\ maximal_scratchpad = [isfile |-> FALSE, text |-> << >>]
    /\ scratchpad_result = [forward |-> "unset", swapped |-> "unset"]

\* check_assertions is not modelled
AssertFnIdle ==
    /\ checked_dir = [listable |-> FALSE, files |-> << >>]
    /\ assertion_verdict = [called |-> FALSE, outcome |-> [raised |-> FALSE, value |-> -1]]

\* find_matched_target_subdirs is not modelled
MatcherIdle ==
    /\ target_pool = << >>
    /\ original_task = << >>
    /\ matched_result = [called |-> FALSE, value |-> << >>]

\* combine_results is not modelled
CombineIdle ==
    /\ checker_data = [db |-> << >>, assertion |-> << >>, scratchpad |-> << >>, dp |-> << >>]
    /\ report = [written |-> FALSE, rows |-> << >>]

\* no run in a chosen processing order is modelled
OrderIdle ==
    /\ workload = [checker |-> "none", items |-> {}]
    /\ order_runs = << >>

\* merge_playwright_scripts is not modelled
MergeIdle ==
    /\ merge_input = [called |-> FALSE]
    /\ merge_output = [called |-> FALSE]

FnIdle == OrderIdle /\ MergeIdle

\* no single function is modelled
PureIdle == ScratchIdle /\ AssertFnIdle /\ MatcherIdle /\ CombineIdle /\ FnIdle

\* no thread pool is modelled: the state of the single-threaded specifications
PoolIdle ==
    /\ workers = << >>
    /\ fut_idx = 0
    /\ produced = [k \in Keys |-> [correct |-> 0, incorrect |-> 0]]

\* no checker run is modelled: the state of the pure-function specifications
RunIdle ==
    /\ checker = "none"
    /\ data = << >>
    /\ pc = "idle"
    /\ src_idx = 0
    /\ remaining = << >>
    /\ ingested = [k \in Keys |-> 0]
    /\ excluded = [k \in Keys |-> 0]
    /\ PoolIdle
    /\ DPIdle

(***************************************************************************)
(* Click-overlap, strict mode: DBCorrectnessChecker.compare_columns.       *)
(***************************************************************************)

\* Python truthiness of a string
Truthy(s) == s # ""

DB_click_match_NoRootSkip(s, t) ==
    \/ (Truthy(s[1]) /\ s[1] = t[1])
    \/ (Truthy(s[2]) /\ s[2] = t[2])

\* the condition of the inner if: s = <<s_xpath, s_el_id>>, t = <<t_xpath, t_el_id>>
DB_click_match(s, t) ==
    \/ (Truthy(s[1]) /\ s[1] = t[1])
    \/ (Truthy(s[2]) /\ s[2] \notin {"root", "#root"} /\ s[2] = t[2])

DB_inner_loop_DefaultMatched(s, tgt, j) == TRUE

\* the inner for loop from its j-th iteration on: the final value of `matched`
RECURSIVE DB_inner_loop(_, _, _)
DB_inner_loop(s, tgt, j) ==
    IF j > Len(tgt) THEN FALSE
    ELSE IF DB_click_match(s, tgt[j]) THEN TRUE
    ELSE DB_inner_loop(s, tgt, j + 1)

\* the outer for loop from its i-th iteration on: the value returned
RECURSIVE DB_outer_loop(_, _, _)
DB_outer_loop(src, tgt, i) ==
    IF i > Len(src) THEN TRUE
    ELSE IF ~DB_inner_loop(src[i], tgt, 1) THEN FALSE
    ELSE DB_outer_loop(src, tgt, i + 1)

\* a strict comparison that stops at the first matched source click
DB_compare_columns_AnySource(src, tgt) ==
    \E i \in 1..Len(src) : DB_inner_loop(src[i], tgt, 1)

DB_compare_columns(src, tgt) == DB_outer_loop(src, tgt, 1)

\* a row of the event table as load_relavant_columns_from_db returns it
Row(event_type, xpath, element_id) ==
    [event_type |-> event_type, xpath |-> xpath, element_id |-> element_id]

\* the event tables of the DBs the runs of the store can hold
RecordedData ==
    {<< >>,
     <<Row("click", "//a", "")>>,
     <<Row("input", "//a", "cart"), Row("click", "", "cart")>>,
     <<Row("click", "//a", "root"), Row("navigate", "", ""), Row("click", "", "cart")>>}

\* AbstractComparisonChecker.get_click_events
RECURSIVE get_click_events(_)
get_click_events(rows) ==
    IF rows = << >> THEN << >>
    ELSE LET row == Head(rows)
             rest == get_click_events(Tail(rows))
         IN  IF row.event_type = "click"
             THEN << <<row.xpath, row.element_id>> >> \o rest
             ELSE rest

\* the event table whose click rows are the given clicks
ClickRows(clicks) ==
    [i \in 1..Len(clicks) |-> Row("click", clicks[i][1], clicks[i][2])]

(***************************************************************************)
(* Click-overlap, susceptibility mode: DPComparisonChecker.compare_columns *)
(***************************************************************************)

\* same_xpath or same_id
DP_click_match(s, t) ==
    LET same_xpath == Truthy(s[1]) /\ (s[1] = t[1])
        same_id == Truthy(s[2]) /\ s[2] \notin {"root", "#root"} /\ (s[2] = t[2])
    IN  same_xpath \/ same_id

\* the inner for loop from its j-th iteration on: TRUE when it returns True
RECURSIVE DP_inner_loop(_, _, _)
DP_inner_loop(s, tgt, j) ==
    IF j > Len(tgt) THEN FALSE
    ELSE IF DP_click_match(s, tgt[j]) THEN TRUE
    ELSE DP_inner_loop(s, tgt, j + 1)

RECURSIVE DP_outer_loop(_, _, _)
DP_outer_loop(src, tgt, i) ==
    IF i > Len(src) THEN FALSE
    ELSE IF DP_inner_loop(src[i], tgt, 1) THEN TRUE
    ELSE DP_outer_loop(src, tgt, i + 1)

\* a susceptibility comparison that demands a match for every source click
DP_compare_columns_EverySource(source_data, target_data) ==
    LET src == get_click_events(source_data)
        tgt == get_click_events(target_data)
    IN  \A i \in 1..Len(src) : DP_inner_loop(src[i], tgt, 1)

DP_compare_columns(source_data, target_data) ==
    DP_outer_loop(get_click_events(source_data), get_click_events(target_data), 1)

(***************************************************************************)
(* The click specification: both comparisons applied to every pair of      *)
(* click lists within the bounds.                                          *)
(***************************************************************************)

ClickInit ==
    /\ source_clicks \in ClickLists
    /\ target_clicks \in ClickLists
    /\ is_matching_db = "unset"
    /\ match_found = "unset"
    /\ RunIdle
    /\ PureIdle

\* is_matching_db = self.compare_columns(source_data, target_data)
DBCompareColumns ==
    /\ is_matching_db = "unset"
    /\ is_matching_db' =
          (IF DB_compare_columns(source_clicks, target_clicks)
           THEN "correct" ELSE "incorrect")
    /\ UNCHANGED <<pure_vars, source_clicks, target_clicks, match_found, run_vars, pool_vars, dp_vars>>

\* match_found = self.compare_columns(source_data, target_data)
DPCompareColumns ==
    /\ match_found = "unset"
    /\ match_found' =
          (IF DP_compare_columns(ClickRows(source_clicks), ClickRows(target_clicks))
           THEN "matched" ELSE "not_matched")
    /\ UNCHANGED <<pure_vars, source_clicks, target_clicks, is_matching_db, run_vars, pool_vars, dp_vars>>

ClickNext == DBCompareColumns \/ DPCompareColumns

ClickSpec == ClickInit /\ [][ClickNext]_vars

(***************************************************************************)
(* The match predicate as the claims state it.                             *)
(***************************************************************************)
Qualifies(s, t) ==
    \/ (s[1] # "" /\ s[1] = t[1])
    \/ (s[2] # "" /\ s[2] \notin {"root", "#root"} /\ s[2] = t[2])

HasQualifyingTarget(s, tgt) == \E j \in 1..Len(tgt) : Qualifies(s, tgt[j])

\* C1: the strict verdict is correct iff every source click has a qualifying
\* target click; a further target click never turns correct into incorrect.
C1_StrictIffEverySourceMatched ==
    is_matching_db # "unset" =>
        /\ (is_matching_db = "correct") <=>
              (\A i \in 1..Len(source_clicks) :
                   HasQualifyingTarget(source_clicks[i], target_clicks))
        /\ is_matching_db = "correct" =>
              \A c \in Clicks :
                  DB_compare_columns(source_clicks, Append(target_clicks, c))

\* two source clicks, one with and one without a qualifying target: incorrect
C1_Witness ==
    /\ is_matching_db = "incorrect"
    /\ Len(source_clicks) = 2
    /\ HasQualifyingTarget(source_clicks[1], target_clicks)
    /\ ~HasQualifyingTarget(source_clicks[2], target_clicks)

\* C2: the susceptibility verdict is matched iff some source click has a
\* qualifying target click.
C2_SusceptibilityIffSomePair ==
    match_found # "unset" =>
        ((match_found = "matched") <=>
            (\E i \in 1..Len(source_clicks) :
                 HasQualifyingTarget(source_clicks[i], target_clicks)))

\* matched although the first source click has no qualifying target
C2_Witness ==
    /\ match_found = "matched"
    /\ Len(source_clicks) = 2
    /\ ~HasQualifyingTarget(source_clicks[1], target_clicks)
    /\ HasQualifyingTarget(source_clicks[2], target_clicks)

IsRootId(e) == e \in {"root", "#root"}

\* C3: in both modes a source click with element_id "root" or "#root" matches
\* a target click only through an equal non-empty xpath.
C3_RootIdNeverMatchesById ==
    (Len(source_clicks) = 1 /\ Len(target_clicks) = 1
        /\ IsRootId(source_clicks[1][2])) =>
        LET s == source_clicks[1]
            t == target_clicks[1]
            by_xpath == s[1] # "" /\ s[1] = t[1]
        IN  /\ is_matching_db # "unset" => ((is_matching_db = "correct") <=> by_xpath)
            /\ match_found # "unset" => ((match_found = "matched") <=> by_xpath)

\* source and target click both carry the id "root", with different xpaths:
\* both modes have answered, and answered no match
C3_Witness ==
    /\ Len(source_clicks) = 1 /\ Len(target_clicks) = 1
    /\ source_clicks[1][2] = "root" /\ target_clicks[1][2] = "root"
    /\ source_clicks[1][1] # target_clicks[1][1]
    /\ is_matching_db = "incorrect"
    /\ match_found = "not_matched"

ScenarioA ==
    /\ source_clicks = << <<"//div[@id='cart']", "">> >>
    /\ target_clicks = << <<"", "cart">> >>

\* C4 as stated: Scenario A is judged correct by the strict comparison.
C4_ScenarioA_Correct ==
    (ScenarioA /\ is_matching_db # "unset") => is_matching_db = "correct"

\* C4 amended: Scenario A is judged incorrect, because the source click has an
\* empty element_id and its xpath differs from the target's.
C4_ScenarioA_Incorrect ==
    (ScenarioA /\ is_matching_db # "unset") => is_matching_db = "incorrect"

C4_Witness == ScenarioA /\ is_matching_db = "incorrect"

(***************************************************************************)
(* Scratchpad comparison: ScratchpadCorrectnessChecker.  A text is a       *)
(* sequence of characters; a file is absent or holds a text.               *)
(***************************************************************************)
Whitespace == {" ", "\n"}

NoFile == [isfile |-> FALSE, text |-> << >>]
File(text) == [isfile |-> TRUE, text |-> text]

\* str.split(sep) from position i on, cur being the piece under construction
RECURSIVE SplitFrom(_, _, _, _)
SplitFrom(text, sep, i, cur) ==
    IF i > Len(text) THEN <<cur>>
    ELSE IF text[i] = sep THEN <<cur>> \o SplitFrom(text, sep, i + 1, << >>)
    ELSE SplitFrom(text, sep, i + 1, Append(cur, text[i]))

Split(text, sep) == SplitFrom(text, sep, 1, << >>)

RECURSIVE LStrip(_)
LStrip(line) ==
    IF line # << >> /\ Head(line) \in Whitespace THEN LStrip(Tail(line)) ELSE line

RECURSIVE RStrip(_)
RStrip(line) ==
    IF line # << >> /\ line[Len(line)] \in Whitespace
    THEN RStrip(SubSeq(line, 1, Len(line) - 1)) ELSE line

\* line.strip()
Strip(line) == LStrip(RStrip(line))

collect_scratchpad_lines_KeepEmpty(file) ==
    IF ~file.isfile THEN << >>
    ELSE LET raw == Split(file.text, "\n")
         IN  [i \in 1..Len(raw) |-> Strip(raw[i])]

\* the stripped, non-empty lines of the file; no lines when it is not a file
collect_scratchpad_lines(file) ==
    IF ~file.isfile THEN << >>
    ELSE LET raw == Split(file.text, "\n")
             clean == [i \in 1..Len(raw) |-> Strip(raw[i])]
         IN  SelectSeq(clean, LAMBDA l : l # << >>)

\* line in target_text
IsSubstring(line, text) ==
    \E i \in 0..(Len(text) - Len(line)) : SubSeq(text, i + 1, i + Len(line)) = line

compare_scratchpad_Symmetric(source_file, target_file) ==
    LET src_lines == collect_scratchpad_lines(source_file)
        tgt_lines == collect_scratchpad_lines(target_file)
    IN  /\ source_file.isfile
        /\ target_file.isfile
        /\ \/ \E i \in 1..Len(src_lines) : IsSubstring(src_lines[i], target_file.text)
           \/ \E i \in 1..Len(tgt_lines) : IsSubstring(tgt_lines[i], source_file.text)

\* compare_scratchpad(source_file, target_file): the first source line that
\* is in the target's text returns True, no such line returns False
compare_scratchpad(source_file, target_file) ==
    LET src_lines == collect_scratchpad_lines(source_file)
    IN  IF ~target_file.isfile THEN FALSE
        ELSE \E i \in 1..Len(src_lines) : IsSubstring(src_lines[i], target_file.text)

\* the scratchpad files the runs of the store can hold
ScratchpadFiles ==
    {NoFile, File(<< >>), File(<<"a">>), File(<<"a", "b">>),
     File(<<" ", "b", "\n">>), File(<<"b", "\n", "a", " ", "b">>)}

(***************************************************************************)
(* The aggregation map self.data of the binary checkers.                   *)
(***************************************************************************)

\* self.data[key] = value
SetItem(d, key, value) ==
    [k \in DOMAIN d \cup {key} |-> IF k = key THEN value ELSE d[k]]

EnsureKey_Reset(d, key, fresh) == SetItem(d, key, fresh)

\* if key not in self.data: self.data[key] = fresh
EnsureKey(d, key, fresh) == IF key \in DOMAIN d THEN d ELSE SetItem(d, key, fresh)

\* entry.setdefault("details", []).append(detail)
AppendDetail(entry, detail) ==
    LET old == IF "details" \in DOMAIN entry THEN entry.details ELSE << >>
    IN  [f \in DOMAIN entry \cup {"details"} |->
            IF f = "details" THEN Append(old, detail) ELSE entry[f]]

\* entry[counter] += 1
Increment(entry, counter) == [entry EXCEPT ![counter] = @ + 1]

DB_record_verdict_BothCounters(entry, matching, src_subdir, tgt_subdir) ==
    AppendDetail(
        Increment(Increment(entry, "correct"), "incorrect"),
        [result |-> IF matching THEN "correct" ELSE "incorrect",
         source_directory |-> src_subdir,
         target_directory |-> tgt_subdir])

\* DBCorrectnessChecker.compare_single_target_subdir after compare_columns:
\* one counter is incremented and the detail record appended
DB_record_verdict(entry, matching, src_subdir, tgt_subdir) ==
    AppendDetail(
        Increment(entry, IF matching THEN "correct" ELSE "incorrect"),
        [result |-> IF matching THEN "correct" ELSE "incorrect",
         source_directory |-> src_subdir,
         target_directory |-> tgt_subdir])

\* ScratchpadCorrectnessChecker.compare_single_target_subdir after
\* compare_scratchpad
Scratchpad_record_verdict(entry, is_scratchpad_correct, src_subdir, tgt_subdir) ==
    AppendDetail(
        Increment(entry, IF is_scratchpad_correct THEN "correct" ELSE "incorrect"),
        [source_directory |-> src_subdir,
         target_directory |-> tgt_subdir,
         result |-> IF is_scratchpad_correct THEN "correct" ELSE "incorrect"])

(***************************************************************************)
(* The sequential binary checkers: DBCorrectnessChecker.run and            *)
(* ScratchpadCorrectnessChecker.run.  run() takes the source subdirs in    *)
(* sorted order; for each it matches target subdirs and compares them one  *)
(* by one.  What a step reads from the store is an input of the step.      *)
(***************************************************************************)
\* the longest list of source subdirs of one run
MaxSourceRuns == 2

SeqInit ==
    /\ source_clicks = << >>
    /\ target_clicks = << >>
    /\ is_matching_db = "unset"
    /\ match_found = "unset"
    /\ checker \in {"db", "scratchpad"}
    /\ data = << >>
    /\ pc = "run"
    /\ src_idx = 0
    /\ remaining = << >>
    /\ ingested = [k \in Keys |-> 0]
    /\ excluded = [k \in Keys |-> 0]
    /\ PoolIdle
    /\ DPIdle
    /\ PureIdle

ProcessSingleSourceSubdir_EmptyIsError ==
    /\ pc = "run"
    /\ checker \in {"db", "scratchpad"}
    /\ remaining = << >>
    /\ src_idx < MaxSourceRuns
    /\ src_idx' = src_idx + 1
    /\ \E matched_target_subdirs \in MatchedLists :
           /\ remaining' = matched_target_subdirs
           /\ pc' = IF matched_target_subdirs = << >> THEN "crashed" ELSE pc
    /\ UNCHANGED <<pure_vars, click_vars, pool_vars, dp_vars, checker, data, ingested, excluded>>

\* process_single_source_subdir up to its loop: the next source subdir is
\* taken and its matched target subdirs are found
ProcessSingleSourceSubdir ==
    /\ pc = "run"
    /\ checker \in {"db", "scratchpad"}
    /\ remaining = << >>
    /\ src_idx < MaxSourceRuns
    /\ src_idx' = src_idx + 1
    /\ \E matched_target_subdirs \in MatchedLists :
           remaining' = matched_target_subdirs
    /\ UNCHANGED <<pure_vars, click_vars, pool_vars, dp_vars, checker, data, pc, ingested, excluded>>

\* DBCorrectnessChecker.compare_single_target_subdir(src_subdir, tgt_subdir)
DBCompareSingleTargetSubdir ==
    /\ pc = "run"
    /\ checker = "db"
    /\ remaining # << >>
    /\ LET src_subdir == src_idx
           tgt_subdir == Head(remaining)
           key == KeyOf(tgt_subdir)
           with_key == EnsureKey(data, key, [correct |-> 0, incorrect |-> 0])
       IN  /\ ingested' = [ingested EXCEPT ![key] = @ + 1]
           /\ \E minimal_db \in BOOLEAN, maximal_db \in BOOLEAN :
                IF ~minimal_db \/ ~maximal_db
                THEN /\ data' = with_key
                     /\ excluded' = [excluded EXCEPT ![key] = @ + 1]
                ELSE \E src \in RecordedClicks, tgt \in RecordedClicks :
                     LET matching == DB_compare_columns(src, tgt)
                     IN  /\ data' = SetItem(with_key, key,
                               DB_record_verdict(with_key[key], matching,
                                                 src_subdir, tgt_subdir))
                         /\ UNCHANGED excluded
    /\ remaining' = Tail(remaining)
    /\ UNCHANGED <<pure_vars, click_vars, pool_vars, dp_vars, checker, pc, src_idx>>

\* ScratchpadCorrectnessChecker.compare_single_target_subdir(src_subdir,
\* tgt_subdir).  minimal_scratchpad and maximal_scratchpad are the results
\* of os.path.join, non-empty strings, so neither "if not" branch is taken.
ScratchpadCompareSingleTargetSubdir ==
    /\ pc = "run"
    /\ checker = "scratchpad"
    /\ remaining # << >>
    /\ LET src_subdir == src_idx
           tgt_subdir == Head(remaining)
           key == KeyOf(tgt_subdir)
           with_key == EnsureKey(data, key,
                           [correct |-> 0, incorrect |-> 0, details |-> << >>])
       IN  /\ ingested' = [ingested EXCEPT ![key] = @ + 1]
           /\ \E source_file \in ScratchpadFiles, target_file \in ScratchpadFiles :
                LET is_scratchpad_correct ==
                        compare_scratchpad(source_file, target_file)
                IN  data' = SetItem(with_key, key,
                        Scratchpad_record_verdict(with_key[key],
                            is_scratchpad_correct, src_subdir, tgt_subdir))
    /\ remaining' = Tail(remaining)
    /\ UNCHANGED <<pure_vars, click_vars, pool_vars, dp_vars, checker, pc, src_idx, excluded>>

\* the source list is exhausted: finalize_reports writes self.data out
FinalizeReports ==
    /\ pc = "run"
    /\ checker \in {"db", "scratchpad"}
    /\ remaining = << >>
    /\ pc' = "finalized"
    /\ UNCHANGED <<pure_vars, click_vars, pool_vars, dp_vars, checker, data, src_idx, remaining, ingested, excluded>>

SeqNext ==
    \/ ProcessSingleSourceSubdir
    \/ DBCompareSingleTargetSubdir
    \/ ScratchpadCompareSingleTargetSubdir
    \/ FinalizeReports

SeqSpec == SeqInit /\ [][SeqNext]_vars

\* correct + incorrect of a key; 0 while the key has no entry
Judged(key) == IF key \in DOMAIN data THEN data[key].correct + data[key].incorrect ELSE 0

\* C5: in the DB click checker and the scratchpad checker, correct + incorrect
\* of every key equals the number of pairs ingested for the key that were not
\* excluded, and never exceeds the number of pairs evaluated for the key.
C5_AggregationConservation ==
    \A key \in Keys :
        /\ Judged(key) = ingested[key] - excluded[key]
        /\ Judged(key) <= ingested[key]

\* a key of the DB checker with an excluded pair, a correct and an incorrect one
C5_Witness ==
    \E key \in DOMAIN data :
        /\ checker = "db"
        /\ excluded[key] = 1
        /\ data[key].correct = 1
        /\ data[key].incorrect = 1

(***************************************************************************)
(* The assertion checker: AssertionCorrectnessChecker.  run() submits one  *)
(* task per source subdir to a ThreadPoolExecutor, takes the result of     *)
(* every future and then writes the report.  All tasks update the one      *)
(* dict self.data without a lock, so a task can be pre-empted between any  *)
(* two of its dict operations; each of them is one step here.              *)
(***************************************************************************)
\* the most source subdirs (tasks of the pool) of one run
MaxWorkers == 2

\* what os.listdir and the files of a target run directory can look like:
\* the files in listdir order, each with what check_assertions reads of it
MergedScript(has_expect, pytest) ==
    [merged |-> TRUE, readable |-> TRUE, has_expect |-> has_expect, pytest |-> pytest]
OtherFile ==
    [merged |-> FALSE, readable |-> TRUE, has_expect |-> TRUE, pytest |-> "exit0"]
UndecodableScript ==
    [merged |-> TRUE, readable |-> FALSE, has_expect |-> TRUE, pytest |-> "exit0"]

TargetDirectories ==
    {[listable |-> TRUE, files |-> << >>],
     [listable |-> TRUE, files |-> <<OtherFile>>],
     [listable |-> TRUE, files |-> <<OtherFile, MergedScript(TRUE, "exit0")>>],
     [listable |-> TRUE, files |-> <<MergedScript(TRUE, "exit1")>>],
     [listable |-> TRUE, files |-> <<MergedScript(FALSE, "exit0")>>],
     [listable |-> TRUE, files |-> <<MergedScript(TRUE, "not_started")>>],
     [listable |-> TRUE, files |-> <<UndecodableScript>>],
     [listable |-> FALSE, files |-> << >>]}

Returns(v) == [raised |-> FALSE, value |-> v]
Raises == [raised |-> TRUE, value |-> 0]

check_assertions_files_ExitIgnored(files, i) ==
    IF \E k \in i..Len(files) : files[k].merged /\ files[k].has_expect
    THEN Returns(1) ELSE Returns(-1)

\* the for loop of check_assertions from its i-th file on.  open/read raise
\* on an undecodable file; subprocess.check_call raises CalledProcessError
\* on a non-zero exit, which is caught, and FileNotFoundError when pytest
\* cannot be started, which is not.
RECURSIVE check_assertions_files(_, _)
check_assertions_files(files, i) ==
    IF i > Len(files) THEN Returns(-1)
    ELSE IF ~files[i].merged THEN check_assertions_files(files, i + 1)
    ELSE IF ~files[i].readable THEN Raises
    ELSE IF ~files[i].has_expect THEN Returns(-1)
    ELSE IF files[i].pytest = "exit0" THEN Returns(1)
    ELSE IF files[i].pytest = "exit1" THEN Returns(0)
    ELSE Raises

\* check_assertions(dir_to_check): os.listdir raises on an unreadable directory
check_assertions(dir_to_check) ==
    IF ~dir_to_check.listable THEN Raises
    ELSE check_assertions_files(dir_to_check.files, 1)

Workers == 1..MaxWorkers

\* the matched target subdirs of the source subdirs given to the pool: none,
\* or one of the target subdirs
PoolMatchedLists == {<< >>} \cup {<<t>> : t \in TgtSubdirs}

\* a task of the pool before it runs
PendingTask ==
    [pc |-> "pending", matched |-> << >>, verdict |-> 0, ref |-> <<0, 0>>, val |-> 0]

AssertInit ==
    /\ source_clicks = << >>
    /\ target_clicks = << >>
    /\ is_matching_db = "unset"
    /\ match_found = "unset"
    /\ checker = "assertion"
    /\ data = << >>
    /\ pc = "submit"
    /\ src_idx = 0
    /\ remaining = << >>
    /\ ingested = [k \in Keys |-> 0]
    /\ excluded = [k \in Keys |-> 0]
    /\ PoolIdle
    /\ DPIdle
    /\ PureIdle

Finished(w) == workers[w].pc \in {"done", "raised"}

\* futures.append(executor.submit(self.process_single_source_subdir, src_subdir))
Submit ==
    /\ pc = "submit"
    /\ src_idx < MaxWorkers
    /\ src_idx' = src_idx + 1
    /\ workers' = Append(workers, PendingTask)
    /\ UNCHANGED <<pure_vars, click_vars, dp_vars, checker, data, pc, remaining, ingested, excluded,
                   fut_idx, produced>>

\* the for loop over source_subdirs ends
SubmitDone ==
    /\ pc = "submit"
    /\ pc' = "result"
    /\ UNCHANGED <<pure_vars, click_vars, dp_vars, checker, data, src_idx, remaining, ingested,
                   excluded, pool_vars>>

\* the step of a task to its next target subdir, or to its end
NextTarget(w, rest) ==
    [workers[w] EXCEPT !.matched = rest,
                       !.pc = IF rest = << >> THEN "done" ELSE "check_key"]

\* process_single_source_subdir(src_subdir) starts in a pool thread and
\* finds its matched target subdirs
WorkerStart(w) ==
    /\ workers[w].pc = "pending"
    /\ \E matched_target_subdirs \in PoolMatchedLists :
           workers' = [workers EXCEPT ![w] = NextTarget(w, matched_target_subdirs)]
    /\ UNCHANGED <<pure_vars, click_vars, run_vars, dp_vars, fut_idx, produced>>

\* compare_single_target_subdir: if key not in self.data
WorkerCheckKey(w) ==
    /\ workers[w].pc = "check_key"
    /\ LET key == KeyOf(Head(workers[w].matched))
       IN  workers' = [workers EXCEPT ![w].pc =
               IF key \in DOMAIN data THEN "check_assertions" ELSE "create"]
    /\ UNCHANGED <<pure_vars, click_vars, run_vars, dp_vars, fut_idx, produced>>

\* compare_single_target_subdir: self.data[key] = {"correct": 0, "incorrect": 0},
\* a new dict object, named here by the task and target that made it
WorkerCreate(w) ==
    /\ workers[w].pc = "create"
    /\ LET tgt_subdir == Head(workers[w].matched)
           key == KeyOf(tgt_subdir)
       IN  data' = SetItem(data, key,
               [correct |-> 0, incorrect |-> 0, id |-> <<w, Len(workers[w].matched)>>])
    /\ workers' = [workers EXCEPT ![w].pc = "check_assertions"]
    /\ UNCHANGED <<pure_vars, click_vars, dp_vars, checker, pc, src_idx, remaining, ingested, excluded,
                   fut_idx, produced>>

WorkerCheckAssertions_IndeterminateCounted(w) ==
    /\ workers[w].pc = "check_assertions"
    /\ \E dir_to_check \in TargetDirectories :
         LET assertion_correct == check_assertions(dir_to_check)
             key == KeyOf(Head(workers[w].matched))
         IN  IF assertion_correct.raised
             THEN /\ workers' = [workers EXCEPT ![w].pc = "raised"]
                  /\ UNCHANGED produced
             ELSE IF assertion_correct.value = 1
             THEN /\ workers' = [workers EXCEPT ![w].pc = "load", ![w].verdict = 1]
                  /\ produced' = [produced EXCEPT ![key].correct = @ + 1]
             ELSE IF assertion_correct.value = 0
             THEN /\ workers' = [workers EXCEPT ![w].pc = "load", ![w].verdict = 0]
                  /\ produced' = [produced EXCEPT ![key].incorrect = @ + 1]
             ELSE /\ workers' = [workers EXCEPT ![w].pc = "load", ![w].verdict = 0]
                  /\ UNCHANGED produced
    /\ UNCHANGED <<pure_vars, click_vars, run_vars, dp_vars, fut_idx>>

\* compare_single_target_subdir: assertion_correct = self.check_assertions(tgt_subdir)
\* and the branch on it; an exception ends the task and is kept in its future
WorkerCheckAssertions(w) ==
    /\ workers[w].pc = "check_assertions"
    /\ \E dir_to_check \in TargetDirectories :
         LET assertion_correct == check_assertions(dir_to_check)
             key == KeyOf(Head(workers[w].matched))
         IN  IF assertion_correct.raised
             THEN /\ workers' = [workers EXCEPT ![w].pc = "raised"]
                  /\ UNCHANGED produced
             ELSE IF assertion_correct.value = 1
             THEN /\ workers' = [workers EXCEPT ![w].pc = "load", ![w].verdict = 1]
                  /\ produced' = [produced EXCEPT ![key].correct = @ + 1]
             ELSE IF assertion_correct.value = 0
             THEN /\ workers' = [workers EXCEPT ![w].pc = "load", ![w].verdict = 0]
                  /\ produced' = [produced EXCEPT ![key].incorrect = @ + 1]
             ELSE /\ workers' = [workers EXCEPT ![w] =
                                    NextTarget(w, Tail(workers[w].matched))]
                  /\ UNCHANGED produced
    /\ UNCHANGED <<pure_vars, click_vars, run_vars, dp_vars, fut_idx>>

CounterOf(verdict) == IF verdict = 1 THEN "correct" ELSE "incorrect"

\* self.data[key][counter] += 1, first half: the dict object of the key and
\* the value of its counter are loaded
WorkerLoad(w) ==
    /\ workers[w].pc = "load"
    /\ LET key == KeyOf(Head(workers[w].matched))
       IN  workers' = [workers EXCEPT
               ![w].pc = "store",
               ![w].ref = data[key].id,
               ![w].val = data[key][CounterOf(workers[w].verdict)]]
    /\ UNCHANGED <<pure_vars, click_vars, run_vars, dp_vars, fut_idx, produced>>

\* self.data[key][counter] += 1, second half: the sum is stored in the dict
\* object loaded before; if the key holds another object by now, the store
\* goes to an object nothing refers to any more
WorkerStore(w) ==
    /\ workers[w].pc = "store"
    /\ LET key == KeyOf(Head(workers[w].matched))
       IN  data' = IF data[key].id = workers[w].ref
                   THEN SetItem(data, key,
                            [data[key] EXCEPT ![CounterOf(workers[w].verdict)] =
                                workers[w].val + 1])
                   ELSE data
    /\ workers' = [workers EXCEPT ![w].pc = "append"]
    /\ UNCHANGED <<pure_vars, click_vars, dp_vars, checker, pc, src_idx, remaining, ingested, excluded,
                   fut_idx, produced>>

\* self.data[key].setdefault("details", []).append({...})
WorkerAppend(w) ==
    /\ workers[w].pc = "append"
    /\ LET tgt_subdir == Head(workers[w].matched)
           key == KeyOf(tgt_subdir)
       IN  data' = SetItem(data, key,
               AppendDetail(data[key],
                   [result |-> CounterOf(workers[w].verdict),
                    source_directory |-> w,
                    target_directory |-> tgt_subdir]))
    /\ workers' = [workers EXCEPT ![w] = NextTarget(w, Tail(workers[w].matched))]
    /\ UNCHANGED <<pure_vars, click_vars, dp_vars, checker, pc, src_idx, remaining, ingested, excluded,
                   fut_idx, produced>>

\* a future.result() that returns before the task has ended
FutureResult_NoWait ==
    /\ pc = "result"
    /\ fut_idx < Len(workers)
    /\ IF workers[fut_idx + 1].pc = "raised"
       THEN pc' = "unwinding" /\ UNCHANGED fut_idx
       ELSE fut_idx' = fut_idx + 1 /\ UNCHANGED pc
    /\ UNCHANGED <<pure_vars, click_vars, dp_vars, checker, data, src_idx, remaining, ingested,
                   excluded, workers, produced>>

\* future.result() of the next future: it waits for the task to end and
\* re-raises the exception the task ended with
FutureResult ==
    /\ pc = "result"
    /\ fut_idx < Len(workers)
    /\ Finished(fut_idx + 1)
    /\ IF workers[fut_idx + 1].pc = "raised"
       THEN pc' = "unwinding" /\ UNCHANGED fut_idx
       ELSE fut_idx' = fut_idx + 1 /\ UNCHANGED pc
    /\ UNCHANGED <<pure_vars, click_vars, dp_vars, checker, data, src_idx, remaining, ingested,
                   excluded, workers, produced>>

\* the end of the with block: executor.shutdown(wait=True) returns when every
\* task has ended; then finalize_reports runs, unless an exception is on its
\* way out of run()
ExecutorShutdown ==
    /\ \/ pc = "unwinding"
       \/ pc = "result" /\ fut_idx = Len(workers)
    /\ \A w \in 1..Len(workers) : Finished(w)
    /\ pc' = IF pc = "unwinding" THEN "crashed" ELSE "finalized"
    /\ UNCHANGED <<pure_vars, click_vars, dp_vars, checker, data, src_idx, remaining, ingested,
                   excluded, pool_vars>>

\* the steps of the pool: some submitted task takes its next step
TaskStart == \E w \in 1..Len(workers) : WorkerStart(w)
TaskCheckKey == \E w \in 1..Len(workers) : WorkerCheckKey(w)
TaskCreate == \E w \in 1..Len(workers) : WorkerCreate(w)
TaskCheckAssertions == \E w \in 1..Len(workers) : WorkerCheckAssertions(w)
TaskLoad == \E w \in 1..Len(workers) : WorkerLoad(w)
TaskStore == \E w \in 1..Len(workers) : WorkerStore(w)
TaskAppend == \E w \in 1..Len(workers) : WorkerAppend(w)

AssertNext ==
    \/ Submit
    \/ SubmitDone
    \/ TaskStart
    \/ TaskCheckKey
    \/ TaskCreate
    \/ TaskCheckAssertions
    \/ TaskLoad
    \/ TaskStore
    \/ TaskAppend
    \/ FutureResult
    \/ ExecutorShutdown

AssertSpec == AssertInit /\ [][AssertNext]_vars

DetailsOf(key) ==
    IF key \in DOMAIN data /\ "details" \in DOMAIN data[key]
    THEN data[key].details ELSE << >>

CountOf(key, counter) == IF key \in DOMAIN data THEN data[key][counter] ELSE 0

\* C6: whatever the interleaving of the pool's tasks, when all of them have
\* finished the correct and incorrect counts of every key equal the numbers of
\* correct and incorrect verdicts produced for the key, and every verdict has
\* its detail record.
C6_AtomicAggregation ==
    pc = "finalized" =>
        \A key \in Keys :
            /\ CountOf(key, "correct") = produced[key].correct
            /\ CountOf(key, "incorrect") = produced[key].incorrect
            /\ Len(DetailsOf(key)) = produced[key].correct + produced[key].incorrect

\* C7: a failing comparison of one pair never makes run() end with an
\* exception instead of reaching finalize_reports.
C7_FailureIsolation == pc # "crashed"

(***************************************************************************)
(* The dark-pattern checker: DPComparisonChecker.                          *)
(***************************************************************************)
\* the most (source, target) pairs one run of the dark-pattern checker compares
MaxPairs == 2

\* the set of the elements of a list
ToSet(list) == {list[i] : i \in 1..Len(list)}

\* the lists a set can be iterated as: every order, each element once
Orders(S) ==
    {l \in [1..Cardinality(S) -> S] : \A i, j \in 1..Cardinality(S) : l[i] = l[j] => i = j}

\* parse_dp_codes(site_url): the dp= value split at "_", [] without a dp= value
parse_dp_codes(site_url) ==
    IF site_url.dp.present THEN Split(site_url.dp.value, "_") ELSE << >>

\* parse_site_category(site_url): the path segment, "N/A" without one
parse_site_category(site_url) ==
    IF site_url.category = "" THEN "N/A" ELSE site_url.category

\* evaluation.consts.site_dp_mapping: per site category, code -> label
site_dp_mapping ==
    [category \in {"shop", "news"} |->
        IF category = "shop"
        THEN [code \in {<<"tos">>, <<"popup">>, <<"sneak">>} |->
                 CASE code = <<"tos">> -> "Hidden Terms"
                   [] code = <<"popup">> -> "Popup Ad"
                   [] code = <<"sneak">> -> "Sneak Into Basket"]
        ELSE [code \in {<<"tos">>} |-> "Hidden Terms"]]

\* site_dp_mapping[site_category].values()
LabelsOfCategory(site_category) ==
    {site_dp_mapping[site_category][c] : c \in DOMAIN site_dp_mapping[site_category]}

\* map_dp_codes_to_labels(site_category, codes)
RECURSIVE map_dp_codes_to_labels(_, _)
map_dp_codes_to_labels(site_category, codes) ==
    IF site_category \notin DOMAIN site_dp_mapping THEN <<"N/A">>
    ELSE IF codes = << >> THEN << >>
    ELSE LET c == Head(codes)
             rest == map_dp_codes_to_labels(site_category, Tail(codes))
         IN  IF c \in DOMAIN site_dp_mapping[site_category]
             THEN <<site_dp_mapping[site_category][c]>> \o rest
             ELSE rest

DP_intersection_AllTargetCodes(source_codes, target_codes) == ToSet(target_codes)

\* dp_intersection = set(source_codes).intersection(target_codes)
DP_intersection(source_codes, target_codes) ==
    ToSet(source_codes) \cap ToSet(target_codes)

DP_skips_comparison_Never(dp_intersection) == FALSE

\* if not dp_intersection
DP_skips_comparison(dp_intersection) == dp_intersection = {}

\* d.setdefault(lbl, 0) for every lbl of the set
SetDefaults(d, labels) ==
    [l \in DOMAIN d \cup labels |-> IF l \in DOMAIN d THEN d[l] ELSE 0]

\* a crediting that stores the last outcome in place of adding it
RECURSIVE Credit_Overwrite(_, _, _)
Credit_Overwrite(d, dp_labels, matched) ==
    IF dp_labels = << >> THEN d
    ELSE Credit_Overwrite(SetItem(d, Head(dp_labels), IF matched THEN 1 ELSE 0),
                          Tail(dp_labels), matched)

\* for lbl in dp_labels: d[lbl] = d.get(lbl, 0) + (1 if match_found else 0)
RECURSIVE Credit(_, _, _)
Credit(d, dp_labels, matched) ==
    IF dp_labels = << >> THEN d
    ELSE LET lbl == Head(dp_labels)
             current_val == IF lbl \in DOMAIN d THEN d[lbl] ELSE 0
         IN  Credit(SetItem(d, lbl, current_val + (IF matched THEN 1 ELSE 0)),
                    Tail(dp_labels), matched)

DP_update_counters_BothDirections(entry, target_labels, dp_labels, is_fell_for_dp, matched) ==
    [entry EXCEPT
        !.fell_for_dp = Credit(SetDefaults(@, target_labels), dp_labels, matched),
        !.did_not_fall_for_dp = Credit(SetDefaults(@, target_labels), dp_labels, matched)]

\* compare_single_target_subdir: the labels of the target's category are
\* seeded with 0 in both maps, then the labels of the intersection are
\* credited in the map of the direction
DP_update_counters(entry, target_labels, dp_labels, is_fell_for_dp, matched) ==
    LET seeded == [entry EXCEPT
                      !.fell_for_dp = SetDefaults(@, target_labels),
                      !.did_not_fall_for_dp = SetDefaults(@, target_labels)]
    IN  IF is_fell_for_dp
        THEN [seeded EXCEPT !.fell_for_dp = Credit(@, dp_labels, matched)]
        ELSE [seeded EXCEPT !.did_not_fall_for_dp = Credit(@, dp_labels, matched)]

\* the site URLs of the source subdirs
SourceSites == {SiteShopTosPopup, SiteShopXx, SiteShopBenign}

\* list(set(matched_target_subdirs)): the matched subdirs in any order
DPMatchedLists(n) ==
    UNION {Orders(S) : S \in {T \in SUBSET DPTgtSubdirs : Cardinality(T) <= n}}

RECURSIVE SumOver(_, _)
SumOver(f, S) ==
    IF S = {} THEN 0
    ELSE LET k == CHOOSE x \in S : TRUE IN f[k] + SumOver(f, S \ {k})

\* the pairs compared so far
PairsCompared == SumOver(ingested, Keys)

DPInit ==
    /\ source_clicks = << >>
    /\ target_clicks = << >>
    /\ is_matching_db = "unset"
    /\ match_found = "unset"
    /\ checker = "dp"
    /\ data = << >>
    /\ pc = "fell_for_dp"
    /\ src_idx = 0
    /\ remaining = << >>
    /\ ingested = [k \in Keys |-> 0]
    /\ excluded = [k \in Keys |-> 0]
    /\ PoolIdle
    /\ DPIdle
    /\ PureIdle

\* process_source_subdir up to its loop, for the next source subdir of the
\* directory of the current direction
DPProcessSourceSubdir ==
    /\ pc \in {"fell_for_dp", "did_not_fall_for_dp"}
    /\ remaining = << >>
    /\ src_idx < MaxSourceRuns
    /\ src_idx' = src_idx + 1
    /\ \E source_site \in SourceSites,
          matched_target_subdirs \in DPMatchedLists(MaxPairs - PairsCompared) :
           /\ site' = source_site
           /\ remaining' = matched_target_subdirs
    /\ UNCHANGED <<pure_vars, click_vars, pool_vars, last, checker, data, pc, ingested, excluded>>

\* run(): the sources of fell_source_dir are done, those of
\* did_not_fall_source_dir follow
DPNextDirection ==
    /\ pc = "fell_for_dp"
    /\ remaining = << >>
    /\ pc' = "did_not_fall_for_dp"
    /\ src_idx' = 0
    /\ UNCHANGED <<pure_vars, click_vars, pool_vars, dp_vars, checker, data, remaining,
                   ingested, excluded>>

\* DPComparisonChecker.compare_single_target_subdir(src_subdir, tgt_subdir,
\* site, is_fell_for_dp)
DPCompareSingleTargetSubdir ==
    /\ pc \in {"fell_for_dp", "did_not_fall_for_dp"}
    /\ remaining # << >>
    /\ LET is_fell_for_dp == (pc = "fell_for_dp")
           src_subdir == <<pc, src_idx>>
           tgt_subdir == Head(remaining)
           key == KeyOf(tgt_subdir)
           with_key == EnsureKey(data, key,
                           [fell_for_dp |-> << >>, did_not_fall_for_dp |-> << >>,
                            source_dark_pattern |-> "", details |-> << >>])
           source_codes == parse_dp_codes(site)
           target_codes == parse_dp_codes(target_site(tgt_subdir))
           dp_intersection == DP_intersection(source_codes, target_codes)
           target_site_category == parse_site_category(target_site(tgt_subdir))
           call == [called |-> TRUE, before |-> data, key |-> key,
                    is_fell_for_dp |-> is_fell_for_dp,
                    source_codes |-> source_codes, target_codes |-> target_codes,
                    target_site_category |-> target_site_category]
       IN  /\ ingested' = [ingested EXCEPT ![key] = @ + 1]
           /\ \E minimal_db \in BOOLEAN, maximal_db \in BOOLEAN :
                IF DP_skips_comparison(dp_intersection) \/ ~minimal_db
                THEN /\ data' = with_key
                     /\ last' = call @@ [minimal_db |-> minimal_db,
                                         maximal_db |-> maximal_db,
                                         returned_early |-> TRUE,
                                         match_found |-> FALSE]
                     /\ pc' = pc
                ELSE \E matched \in
                         IF maximal_db
                         THEN {DP_compare_columns(source_data, target_data) :
                                  source_data \in RecordedData, target_data \in RecordedData}
                         ELSE {FALSE} :   \* no maximal DB: match_found stays False
                     IF target_site_category \notin DOMAIN site_dp_mapping
                     THEN \* site_dp_mapping[target_site_category] raises KeyError
                          /\ data' = with_key
                          /\ last' = call @@ [minimal_db |-> minimal_db,
                                              maximal_db |-> maximal_db,
                                              returned_early |-> TRUE,
                                              match_found |-> matched]
                          /\ pc' = "crashed"
                     ELSE \E codes \in Orders(dp_intersection) :
                          /\ data' = SetItem(with_key, key,
                               [DP_update_counters(with_key[key],
                                    LabelsOfCategory(target_site_category),
                                    map_dp_codes_to_labels(target_site_category, codes),
                                    is_fell_for_dp, matched)
                                EXCEPT !.details = Append(@,
                                    [comparison_type |->
                                         IF is_fell_for_dp THEN "fell_for_dp"
                                         ELSE "did_not_fall_for_dp",
                                     source_directory |-> src_subdir,
                                     target_directory |-> tgt_subdir,
                                     result |-> IF matched THEN "matched"
                                                ELSE "not_matched",
                                     source_dark_pattern_codes |-> source_codes,
                                     target_dark_pattern_codes |-> target_codes])])
                          /\ last' = call @@ [minimal_db |-> minimal_db,
                                              maximal_db |-> maximal_db,
                                              returned_early |-> FALSE,
                                              match_found |-> matched]
                          /\ pc' = pc
    /\ remaining' = Tail(remaining)
    /\ UNCHANGED <<pure_vars, click_vars, pool_vars, site, checker, src_idx, excluded>>

\* run(): both source directories are done, finalize_reports writes self.data out
DPFinalizeReports ==
    /\ pc = "did_not_fall_for_dp"
    /\ remaining = << >>
    /\ pc' = "finalized"
    /\ UNCHANGED <<pure_vars, click_vars, pool_vars, dp_vars, checker, data, src_idx, remaining,
                   ingested, excluded>>

DPNext ==
    \/ DPProcessSourceSubdir
    \/ DPNextDirection
    \/ DPCompareSingleTargetSubdir
    \/ DPFinalizeReports

DPSpec == DPInit /\ [][DPNext]_vars

Directions == {"fell_for_dp", "did_not_fall_for_dp"}

AllLabels == UNION {LabelsOfCategory(c) : c \in DOMAIN site_dp_mapping} \cup {"N/A"}

\* whether the map of a direction of a key holds a counter for the label
HasCounter(d, key, dir, lbl) == key \in DOMAIN d /\ lbl \in DOMAIN d[key][dir]

\* the counter of a label in the map of a direction of a key, 0 without one
CounterValue(d, key, dir, lbl) == IF HasCounter(d, key, dir, lbl) THEN d[key][dir][lbl] ELSE 0

DetailsIn(d, key) == IF key \in DOMAIN d THEN d[key].details ELSE << >>

\* the codes the source and the target site of the last call have in common
CommonCodes == {c \in ToSet(last.source_codes) : c \in ToSet(last.target_codes)}

\* the labels the target's category gives the common codes of the last call
CommonLabels ==
    IF last.target_site_category \in DOMAIN site_dp_mapping
    THEN {site_dp_mapping[last.target_site_category][c] :
             c \in CommonCodes \cap DOMAIN site_dp_mapping[last.target_site_category]}
    ELSE {}

DirectionOfLast == IF last.is_fell_for_dp THEN "fell_for_dp" ELSE "did_not_fall_for_dp"

\* C8: a pair whose source and target codes have nothing in common changes no
\* counter of any key and appends no detail record.
C8_DPExclusion ==
    (last.called /\ CommonCodes = {}) =>
        \A key \in Keys :
            /\ DetailsIn(data, key) = DetailsIn(last.before, key)
            /\ \A dir \in Directions, lbl \in AllLabels :
                  /\ HasCounter(data, key, dir, lbl) = HasCounter(last.before, key, dir, lbl)
                  /\ CounterValue(data, key, dir, lbl) = CounterValue(last.before, key, dir, lbl)

\* an excluded pair met a key that already had a counter at 1
C8_Witness ==
    /\ last.called
    /\ CommonCodes = {}
    /\ \E dir \in Directions, lbl \in AllLabels :
           CounterValue(data, last.key, dir, lbl) = 1

C10_DPFrame ==
    (last.called /\ ~last.returned_early) =>
        /\ \A key \in Keys, dir \in Directions, lbl \in AllLabels :
              (key # last.key \/ lbl \notin CommonLabels) =>
                  CounterValue(data, key, dir, lbl) = CounterValue(last.before, key, dir, lbl)
        /\ \A lbl \in LabelsOfCategory(last.target_site_category) \ CommonLabels :
              \A dir \in Directions : HasCounter(data, last.key, dir, lbl)

\* Scenario C: source codes tos and popup, target code popup, a click matched:
\* the popup label went to 1, the tos label was seeded with 0
C10_Witness ==
    /\ last.called
    /\ ~last.returned_early
    /\ last.source_codes = << <<"tos">>, <<"popup">> >>
    /\ last.target_codes = << <<"popup">> >>
    /\ last.match_found
    /\ ~HasCounter(last.before, last.key, "fell_for_dp", "Hidden Terms")
    /\ data[last.key].fell_for_dp["Popup Ad"] = 1
    /\ data[last.key].fell_for_dp["Hidden Terms"] = 0
    /\ data[last.key].did_not_fall_for_dp["Hidden Terms"] = 0

\* the last call compared its pair: common codes and a minimal DB of the source
ComparedLast == last.called /\ CommonCodes # {} /\ last.minimal_db

\* a common code of the last call has no label in the table of the target's
\* category, or the category has no table
HasUnmappedCode ==
    \/ last.target_site_category \notin DOMAIN site_dp_mapping
    \/ \E c \in CommonCodes : c \notin DOMAIN site_dp_mapping[last.target_site_category]

\* C11: a compared pair with a common code without a label, or with a target
\* category without a table, raises no error, and its detail record is
\* appended with the raw source and target codes.
C11_UnmappedCodeRaisesNoError ==
    (ComparedLast /\ HasUnmappedCode) =>
        /\ pc # "crashed"
        /\ Len(DetailsIn(data, last.key)) = Len(DetailsIn(last.before, last.key)) + 1
        /\ LET detail == data[last.key].details[Len(data[last.key].details)]
           IN  /\ detail.source_dark_pattern_codes = last.source_codes
               /\ detail.target_dark_pattern_codes = last.target_codes

(***************************************************************************)
(* compare_scratchpad on its own, over every pair of small files.          *)
(***************************************************************************)
\* the longest scratchpad text
MaxText == 3

\* the characters of the scratchpad texts: two letters that differ in case
\* only, a blank and the line terminator
Chars == {"a", "A", " ", "\n"}

Texts == SeqsUpTo(Chars, MaxText)

\* what can be at a scratchpad path: nothing, or a file with a text
Files == {NoFile} \cup {File(text) : text \in Texts}

Verdict(b) == IF b THEN "true" ELSE "false"

ScratchInit ==
    /\ minimal_scratchpad \in Files
    /\ maximal_scratchpad \in Files
    /\ scratchpad_result = [forward |-> "unset", swapped |-> "unset"]
    /\ AssertFnIdle
    /\ MatcherIdle
    /\ CombineIdle
    /\ source_clicks = << >>
    /\ target_clicks = << >>
    /\ is_matching_db = "unset"
    /\ match_found = "unset"
    /\ RunIdle
    /\ FnIdle

\* is_scratchpad_correct = self.compare_scratchpad(minimal_scratchpad, maximal_scratchpad)
CompareScratchpad ==
    /\ scratchpad_result.forward = "unset"
    /\ scratchpad_result' =
          [scratchpad_result EXCEPT
              !.forward = Verdict(compare_scratchpad(minimal_scratchpad, maximal_scratchpad))]
    /\ UNCHANGED <<minimal_scratchpad, maximal_scratchpad, assert_fn_vars, matcher_vars,
                   combine_vars, click_vars, run_vars, pool_vars, dp_vars, fn_vars>>

\* the same call with the two paths exchanged
CompareScratchpadSwapped ==
    /\ scratchpad_result.swapped = "unset"
    /\ scratchpad_result' =
          [scratchpad_result EXCEPT
              !.swapped = Verdict(compare_scratchpad(maximal_scratchpad, minimal_scratchpad))]
    /\ UNCHANGED <<minimal_scratchpad, maximal_scratchpad, assert_fn_vars, matcher_vars,
                   combine_vars, click_vars, run_vars, pool_vars, dp_vars, fn_vars>>

ScratchNext == CompareScratchpad \/ CompareScratchpadSwapped

ScratchSpec == ScratchInit /\ [][ScratchNext]_vars

\* the lines of a text: its maximal pieces without a line terminator
LinesOf(text) ==
    {SubSeq(text, i, j) : <<i, j>> \in
        {ij \in (1..Len(text) + 1) \X (0..Len(text)) :
            /\ ij[1] <= ij[2] + 1
            /\ \A k \in ij[1]..ij[2] : text[k] # "\n"
            /\ (ij[1] = 1 \/ text[ij[1] - 1] = "\n")
            /\ (ij[2] = Len(text) \/ text[ij[2] + 1] = "\n")}}

\* a line without its leading and trailing blanks
Trimmed(line) ==
    LET inked == {k \in 1..Len(line) : line[k] \notin Whitespace}
    IN  IF inked = {} THEN << >>
        ELSE SubSeq(line, CHOOSE k \in inked : \A m \in inked : k <= m,
                          CHOOSE k \in inked : \A m \in inked : k >= m)

\* the text holds the line, character for character
Contains(text, line) ==
    \E off \in 0..Len(text) :
        /\ off + Len(line) <= Len(text)
        /\ \A k \in 1..Len(line) : text[off + k] = line[k]

\* some non-empty trimmed line of the source file is in the target's text
SomeSourceLineInTarget(src, tgt) ==
    /\ src.isfile
    /\ \E line \in LinesOf(src.text) :
           /\ Trimmed(line) # << >>
           /\ Contains(tgt.text, Trimmed(line))

\* C12: compare_scratchpad is true exactly when the target file exists and a
\* non-empty trimmed line of the source file is a literal substring of the
\* target's text; a missing target and a missing or empty source give false.
C12_ScratchpadIffSomeLineInTarget ==
    scratchpad_result.forward # "unset" =>
        /\ scratchpad_result.forward = "true" <=>
              (maximal_scratchpad.isfile
                  /\ SomeSourceLineInTarget(minimal_scratchpad, maximal_scratchpad))
        /\ ~maximal_scratchpad.isfile => scratchpad_result.forward = "false"
        /\ (~minimal_scratchpad.isfile \/ minimal_scratchpad.text = << >>) =>
              scratchpad_result.forward = "false"

\* a source line that had to be trimmed is found in a target that also holds
\* the same letter in the other case
C12_Witness ==
    /\ minimal_scratchpad = File(<<" ", "a", "\n">>)
    /\ maximal_scratchpad = File(<<"A", "a">>)
    /\ scratchpad_result.forward = "true"

\* a file of one line without blanks
SingleWord(file) ==
    /\ file.isfile
    /\ file.text # << >>
    /\ \A k \in 1..Len(file.text) : file.text[k] \notin Whitespace

\* C13: compare_scratchpad is not symmetric: for a one-line A that is in a
\* longer one-line B, compare_scratchpad(A, B) is true and
\* compare_scratchpad(B, A) is false.
C13_ScratchpadAsymmetry ==
    (/\ scratchpad_result.forward # "unset"
     /\ scratchpad_result.swapped # "unset"
     /\ SingleWord(minimal_scratchpad)
     /\ SingleWord(maximal_scratchpad)
     /\ Len(minimal_scratchpad.text) < Len(maximal_scratchpad.text)
     /\ Contains(maximal_scratchpad.text, minimal_scratchpad.text)) =>
        /\ scratchpad_result.forward = "true"
        /\ scratchpad_result.swapped = "false"

\* A = "a" in B = "aA": the two directions gave different verdicts
C13_Witness ==
    /\ minimal_scratchpad = File(<<"a">>)
    /\ maximal_scratchpad = File(<<"a", "A">>)
    /\ scratchpad_result = [forward |-> "true", swapped |-> "false"]

(***************************************************************************)
(* check_assertions on its own, over small target run directories.         *)
(***************************************************************************)
\* the most files of a target run directory
MaxFiles == 2

\* what a file of the directory can be to check_assertions
FileKinds ==
    {OtherFile, UndecodableScript}
        \cup {MergedScript(has_expect, pytest) :
                 has_expect \in BOOLEAN, pytest \in {"exit0", "exit1", "not_started"}}

Directories ==
    {[listable |-> FALSE, files |-> << >>]}
        \cup {[listable |-> TRUE, files |-> files] : files \in SeqsUpTo(FileKinds, MaxFiles)}

AssertFnInit ==
    /\ checked_dir \in Directories
    /\ assertion_verdict = [called |-> FALSE, outcome |-> [raised |-> FALSE, value |-> -1]]
    /\ ScratchIdle
    /\ MatcherIdle
    /\ CombineIdle
    /\ source_clicks = << >>
    /\ target_clicks = << >>
    /\ is_matching_db = "unset"
    /\ match_found = "unset"
    /\ RunIdle
    /\ FnIdle

\* assertion_correct = self.check_assertions(tgt_subdir)
CheckAssertions ==
    /\ ~assertion_verdict.called
    /\ assertion_verdict' = [called |-> TRUE, outcome |-> check_assertions(checked_dir)]
    /\ UNCHANGED <<checked_dir, scratch_vars, matcher_vars, combine_vars, click_vars,
                   run_vars, pool_vars, dp_vars, fn_vars>>

AssertFnNext == CheckAssertions

AssertFnSpec == AssertFnInit /\ [][AssertFnNext]_vars

\* the directory holds a file named test_*_merged.py
HasMergedScript(dir) == \E k \in 1..Len(dir.files) : dir.files[k].merged

\* the merged script check_assertions meets first in the listing
TheMergedScript(dir) ==
    dir.files[CHOOSE k \in 1..Len(dir.files) :
                 /\ dir.files[k].merged
                 /\ \A m \in 1..(k - 1) : ~dir.files[m].merged]

\* C14: check_assertions gives -1 for a directory without a merged script or
\* with a merged script without `expect(`; for a script with `expect(` it
\* gives 1 exactly when the test executor exits with zero and 0 exactly when
\* it exits with a non-zero code.
C14_AssertionVerdict ==
    (assertion_verdict.called /\ checked_dir.listable) =>
        IF ~HasMergedScript(checked_dir)
        THEN assertion_verdict.outcome = Returns(-1)
        ELSE LET script == TheMergedScript(checked_dir)
             IN  script.readable =>
                    /\ ~script.has_expect => assertion_verdict.outcome = Returns(-1)
                    /\ script.has_expect =>
                          /\ assertion_verdict.outcome = Returns(1) <=> script.pytest = "exit0"
                          /\ assertion_verdict.outcome = Returns(0) <=> script.pytest = "exit1"

\* a merged script with `expect(`, listed after another file, failed its tests
C14_Witness ==
    /\ checked_dir = [listable |-> TRUE, files |-> <<OtherFile, MergedScript(TRUE, "exit1")>>]
    /\ assertion_verdict.outcome = Returns(0)

\* every task of the pool has ended
AllTasksEnded == \A w \in 1..Len(workers) : Finished(w)

\* C15: a pair with an indeterminate verdict raises neither counter of its
\* key and gets no detail record: the counters and the detail list of a key
\* never hold more than the correct and incorrect verdicts produced for it,
\* and hold exactly these when a single task made them.
C15_IndeterminateExcluded ==
    \A key \in Keys :
        /\ CountOf(key, "correct") <= produced[key].correct
        /\ CountOf(key, "incorrect") <= produced[key].incorrect
        /\ Len(DetailsOf(key)) <= produced[key].correct + produced[key].incorrect
        /\ (Len(workers) = 1 /\ AllTasksEnded) =>
              /\ CountOf(key, "correct") = produced[key].correct
              /\ CountOf(key, "incorrect") = produced[key].incorrect
              /\ Len(DetailsOf(key)) = produced[key].correct + produced[key].incorrect

\* the only task compared one pair and ended without an exception, the key of
\* the pair has its entry, and no verdict was counted: the pair's verdict was
\* indeterminate
C15_Witness ==
    /\ Len(workers) = 1
    /\ workers[1].pc = "done"
    /\ KeyOf("t1") \in DOMAIN data
    /\ data[KeyOf("t1")].correct = 0
    /\ data[KeyOf("t1")].incorrect = 0
    /\ DetailsOf(KeyOf("t1")) = << >>
    /\ produced[KeyOf("t1")] = [correct |-> 0, incorrect |-> 0]

(***************************************************************************)
(* The four checkers side by side: a run of any one of them.               *)
(***************************************************************************)
CheckersInit == SeqInit \/ AssertInit \/ DPInit

CheckersNext == SeqNext \/ AssertNext \/ DPNext

CheckersSpec == CheckersInit /\ [][CheckersNext]_vars

\* the detail records aggregated under a key
DetailRecords(key) ==
    IF key \in DOMAIN data /\ "details" \in DOMAIN data[key]
    THEN {data[key].details[i] : i \in 1..Len(data[key].details)}
    ELSE {}

\* C16: in every checker a pair's verdict is aggregated under the key made of
\* the target run's agent, site and task, whatever the source run: every
\* detail record of a key names a target run with that agent, site and task.
C16_KeyFromTargetOnly ==
    \A key \in DOMAIN data :
        \A detail \in DetailRecords(key) :
            key = <<agent_name(detail.target_directory),
                    target_site(detail.target_directory),
                    target_task(detail.target_directory)>>

\* two source runs of the dark-pattern checker, whose site differs from the
\* target's, were compared with the same target run and share its key
C16_Witness ==
    /\ checker = "dp"
    /\ \E key \in DOMAIN data :
           \E d1 \in DetailRecords(key), d2 \in DetailRecords(key) :
               /\ d1.target_directory = d2.target_directory
               /\ d1.source_directory # d2.source_directory
               /\ d1.source_dark_pattern_codes # d1.target_dark_pattern_codes
               /\ key[2] = target_site(d1.target_directory)

(***************************************************************************)
(* find_matched_target_subdirs on its own.  A task text is a sequence of   *)
(* characters; "<scratchpad>" stands for the boilerplate sentence that     *)
(* tells the agent to put its results in the scratchpad.                   *)
(***************************************************************************)
\* the task texts of the runs of the store
TaskTexts ==
    {<< >>, <<"a">>, <<"A">>, <<"a", "'">>, <<" ", "a">>,
     <<"a", "<scratchpad>">>, <<"b">>, <<"a", " ", "b">>}

\* evaluation.utils.parsers.unify_task_format: the text without the
\* boilerplate sentence at its end, without apostrophes, in lower case and
\* without leading and trailing whitespace
unify_task_format(task) ==
    LET body == IF task # << >> /\ task[Len(task)] = "<scratchpad>"
                THEN SubSeq(task, 1, Len(task) - 1) ELSE task
        plain == SelectSeq(body, LAMBDA c : c # "'")
        lower == [i \in 1..Len(plain) |-> IF plain[i] = "A" THEN "a" ELSE plain[i]]
    IN  Strip(lower)

\* find_target_subdirs_for_prefix(target_dir, data_subdirs) with the text of
\* the task file of each subdir it finds
TargetPools ==
    UNION {[S -> TaskTexts] : S \in SUBSET TgtSubdirs}

match_loop_RawText(pool, task, i) ==
    SelectSeq(TgtOrder, LAMBDA t : t \in DOMAIN pool /\ pool[t] = task)

\* the for loop over sorted(target_subdirs) from its i-th subdir on
RECURSIVE match_loop(_, _, _)
match_loop(pool, task, i) ==
    IF i > Len(TgtOrder) THEN << >>
    ELSE LET t_subdir == TgtOrder[i]
             rest == match_loop(pool, task, i + 1)
         IN  IF t_subdir \notin DOMAIN pool THEN rest
             ELSE IF unify_task_format(pool[t_subdir]) = unify_task_format(task)
             THEN <<t_subdir>> \o rest
             ELSE rest

\* find_matched_target_subdirs(target_dir, data_subdirs, original_task)
find_matched_target_subdirs(pool, task) == match_loop(pool, task, 1)

MatcherInit ==
    /\ target_pool \in TargetPools
    /\ original_task \in TaskTexts
    /\ matched_result = [called |-> FALSE, value |-> << >>]
    /\ ScratchIdle
    /\ AssertFnIdle
    /\ CombineIdle
    /\ source_clicks = << >>
    /\ target_clicks = << >>
    /\ is_matching_db = "unset"
    /\ match_found = "unset"
    /\ RunIdle
    /\ FnIdle

\* matched_target_subdirs = self.find_matched_target_subdirs(...)
FindMatchedTargetSubdirs ==
    /\ ~matched_result.called
    /\ matched_result' =
          [called |-> TRUE,
           value |-> find_matched_target_subdirs(target_pool, original_task)]
    /\ UNCHANGED <<target_pool, original_task, scratch_vars, assert_fn_vars, combine_vars,
                   click_vars, run_vars, pool_vars, dp_vars, fn_vars>>

MatcherNext == FindMatchedTargetSubdirs

MatcherSpec == MatcherInit /\ [][MatcherNext]_vars

\* C17: a target run of the pool is among the matches exactly when the
\* normalized text of its task file equals the normalized task text of the
\* source run, and nothing outside the pool is returned.
C17_MatchIffNormalizedEqual ==
    matched_result.called =>
        /\ \A t \in DOMAIN target_pool :
              t \in ToSet(matched_result.value) <=>
                  unify_task_format(target_pool[t]) = unify_task_format(original_task)
        /\ ToSet(matched_result.value) \subseteq DOMAIN target_pool

\* of three target runs, the two whose task differs from the source's only in
\* case, apostrophe or boilerplate are matched, the third is not
C17_Witness ==
    /\ original_task = <<"a", "<scratchpad>">>
    /\ target_pool = [t \in TgtSubdirs |->
                         CASE t = "t1" -> <<"A">>
                           [] t = "t2" -> <<"a", " ", "b">>
                           [] t = "t3" -> <<"a", "'">>]
    /\ matched_result = [called |-> TRUE, value |-> <<"t1", "t3">>]

\* a step in which a source run is taken and the matcher returns no target
\* run: process_single_source_subdir (process_source_subdir of the
\* dark-pattern checker) of one checker run, or of one task of the pool
NoMatchStep ==
    \/ /\ checker \in {"db", "scratchpad", "dp"}
       /\ src_idx' = src_idx + 1
       /\ remaining' = << >>
    \/ /\ checker = "assertion"
       /\ \E w \in 1..Len(workers) :
              workers[w].pc = "pending" /\ workers'[w].pc = "done"

\* C18: when the matcher returns nothing for a source run, processing the run
\* leaves the aggregation map as it is and raises no error.
C18_NoMatchLeavesDataUnchanged ==
    [][NoMatchStep => (data' = data /\ pc' = pc /\ ingested' = ingested)]_vars

\* the DB checker took two source runs and compared one pair: one of the runs
\* matched no target run, and the entry of the other's pair is in the map
C18_Witness ==
    /\ checker = "db"
    /\ pc = "run"
    /\ src_idx = 2
    /\ remaining = << >>
    /\ PairsCompared = 1
    /\ data # << >>

\* no element of the list occurs twice in it
NoRepeats(list) == \A i, j \in 1..Len(list) : list[i] = list[j] => i = j

\* the (source, target) pairs the detail records of a key tell of
PairsOf(key) == {<<d.source_directory, d.target_directory>> : d \in DetailRecords(key)}

DBEntries ==
    {[correct |-> 0, incorrect |-> 0], [correct |-> 1, incorrect |-> 0],
     [correct |-> 1, incorrect |-> 1]}

AssertionEntries == {[correct |-> 0, incorrect |-> 0], [correct |-> 0, incorrect |-> 1]}

ScratchpadEntries == {[correct |-> 1, incorrect |-> 0], [correct |-> 0, incorrect |-> 2]}

\* the entries of the dark-pattern checker: one that only was created, one
\* with seeded and credited labels
DPEntries ==
    {[fell_for_dp |-> << >>, did_not_fall_for_dp |-> << >>],
     [fell_for_dp |-> [l \in {"Popup Ad", "Hidden Terms"} |->
                          IF l = "Popup Ad" THEN 1 ELSE 0],
      did_not_fall_for_dp |-> [l \in {"Popup Ad", "Hidden Terms"} |-> 0]]}

\* the .data of the four checkers after their runs
CheckerData ==
    {[db |-> db, assertion |-> assertion, scratchpad |-> scratchpad, dp |-> dp] :
        <<db, assertion, scratchpad, dp>> \in
            UNION {[K -> DBEntries] \X [K -> AssertionEntries] \X [K -> ScratchpadEntries]
                       \X UNION {[D -> DPEntries] :
                                    D \in SUBSET {KeyOf(t) : t \in DPTgtSubdirs}} :
                   K \in SUBSET {KeyOf(t) : t \in TgtSubdirs}}}

\* a cell of the report that holds a result, and the sentinel of an empty one
Cell(v) == [sentinel |-> FALSE, value |-> v]
NA == [sentinel |-> TRUE, value |-> "N/A"]

\* f"{correct}/{correct + incorrect} correct", as the numbers it prints
ResultText(task_results) ==
    <<task_results.correct, "/", task_results.correct + task_results.incorrect, " correct">>

\* the per-checker dicts built from the .data of the checkers
correctness_dict(cd) == [key \in DOMAIN cd.db |-> ResultText(cd.db[key])]
assertion_dict(cd) == [key \in DOMAIN cd.assertion |-> ResultText(cd.assertion[key])]
scratchpad_dict(cd) == [key \in DOMAIN cd.scratchpad |-> ResultText(cd.scratchpad[key])]

\* grouped: the counts of each label summed per direction
dp_dict(cd) ==
    [key \in DOMAIN cd.dp |->
        [fell_for_dp |-> cd.dp[key].fell_for_dp,
         did_not_fall_for_dp |-> cd.dp[key].did_not_fall_for_dp]]

all_comparison_keys_DBOnly(cd) == DOMAIN correctness_dict(cd)

\* set(scratchpad_dict.keys()) | set(dp_dict.keys()) | set(correctness_dict.keys())
all_comparison_keys(cd) ==
    DOMAIN scratchpad_dict(cd) \cup DOMAIN dp_dict(cd) \cup DOMAIN correctness_dict(cd)

\* d.get(key, {}).get(column, "N/A")
GetCell(d, key) == IF key \in DOMAIN d THEN Cell(d[key]) ELSE NA

\* the row written for a key; its task and dark_pattern columns are derived
\* from the key alone and are left out
Row_of(cd, key) ==
    [agent |-> key[1], site |-> key[2], target_task |-> key[3],
     correctness_result |-> GetCell(correctness_dict(cd), key),
     assertion_result |-> GetCell(assertion_dict(cd), key),
     dp_result |-> GetCell(dp_dict(cd), key),
     scratchpad_result |-> GetCell(scratchpad_dict(cd), key)]

CombineInit ==
    /\ checker_data \in CheckerData
    /\ report = [written |-> FALSE, rows |-> << >>]
    /\ ScratchIdle
    /\ AssertFnIdle
    /\ MatcherIdle
    /\ source_clicks = << >>
    /\ target_clicks = << >>
    /\ is_matching_db = "unset"
    /\ match_found = "unset"
    /\ RunIdle
    /\ FnIdle

\* combine_results from the building of the dicts to the last writerow; the
\* set of keys is iterated in some order
CombineResults ==
    /\ ~report.written
    /\ \E order \in Orders(all_comparison_keys(checker_data)) :
           report' = [written |-> TRUE,
                      rows |-> [i \in 1..Len(order) |-> Row_of(checker_data, order[i])]]
    /\ UNCHANGED <<checker_data, scratch_vars, assert_fn_vars, matcher_vars,
                   click_vars, run_vars, pool_vars, dp_vars, fn_vars>>

CombineNext == CombineResults

CombineSpec == CombineInit /\ [][CombineNext]_vars

\* the keys with an entry in the map of some checker
KeysOfAnyChecker ==
    DOMAIN checker_data.db \cup DOMAIN checker_data.assertion
        \cup DOMAIN checker_data.scratchpad \cup DOMAIN checker_data.dp

\* the rows of the report written for the key
RowsFor(key) ==
    {i \in 1..Len(report.rows) :
        <<report.rows[i].agent, report.rows[i].site, report.rows[i].target_task>> = key}

\* the cell holds the sentinel "N/A"
IsNA(cell) == cell.sentinel /\ cell.value = "N/A"

\* the cell holds the checker's result for the key, "N/A" without an entry
HoldsResultOf(cell, d, key, text) ==
    IF key \in DOMAIN d THEN ~cell.sentinel /\ cell.value = text ELSE IsNA(cell)

\* the text of the counters of a binary checker's entry
CountText(entry) == <<entry.correct, "/", entry.correct + entry.incorrect, " correct">>

\* C20: the combined report has exactly one row for every key that has an
\* entry with any of the four checkers, and each checker's column of the row
\* holds that checker's result for the key, or "N/A" without an entry.
C20_OneRowPerKey ==
    report.written =>
        \A key \in KeysOfAnyChecker :
            /\ Cardinality(RowsFor(key)) = 1
            /\ \A i \in RowsFor(key) :
                  /\ HoldsResultOf(report.rows[i].correctness_result, checker_data.db, key,
                        IF key \in DOMAIN checker_data.db
                        THEN CountText(checker_data.db[key]) ELSE << >>)
                  /\ HoldsResultOf(report.rows[i].assertion_result, checker_data.assertion, key,
                        IF key \in DOMAIN checker_data.assertion
                        THEN CountText(checker_data.assertion[key]) ELSE << >>)
                  /\ HoldsResultOf(report.rows[i].scratchpad_result, checker_data.scratchpad, key,
                        IF key \in DOMAIN checker_data.scratchpad
                        THEN CountText(checker_data.scratchpad[key]) ELSE << >>)
                  /\ HoldsResultOf(report.rows[i].dp_result, checker_data.dp, key,
                        IF key \in DOMAIN checker_data.dp
                        THEN [fell_for_dp |-> checker_data.dp[key].fell_for_dp,
                              did_not_fall_for_dp |-> checker_data.dp[key].did_not_fall_for_dp]
                        ELSE << >>)

\* three rows: a key of the binary checkers only, a key of all four checkers
\* and a key of the dark-pattern checker only
C20_Witness ==
    /\ report.written
    /\ Len(report.rows) = 3
    /\ \E i, j, k \in 1..3 :
           /\ IsNA(report.rows[i].dp_result)
           /\ ~report.rows[i].correctness_result.sentinel
           /\ ~report.rows[j].dp_result.sentinel
           /\ ~report.rows[j].assertion_result.sentinel
           /\ report.rows[j].assertion_result.value[3] = 1
           /\ IsNA(report.rows[k].correctness_result)
           /\ IsNA(report.rows[k].scratchpad_result)
           /\ ~report.rows[k].dp_result.sentinel

(***************************************************************************)
(* C21: a pair without a minimal or maximal DB in the strict click checker *)
(***************************************************************************)
\* a step of the DB click checker that returns at "if not minimal_db or not
\* maximal_db"
DBExcludedStep == checker = "db" /\ excluded' # excluded

\* C21 (as stated): a pair with no extractable minimal or maximal DB changes
\* nothing in the aggregation map of the strict click checker: no counter,
\* no detail record and no new key entry.
C21_ExcludedPairChangesNothing == [][DBExcludedStep => data' = data]_vars

\* C21 (amended): a pair with no extractable minimal or maximal DB changes no
\* existing entry of the strict click checker (no counter, no detail record),
\* but the entry of its key is created with correct = 0 and incorrect = 0
\* when the key has none yet.
C21_ExcludedPairCreatesEmptyEntry ==
    [][DBExcludedStep =>
        LET key == KeyOf(Head(remaining))
        IN  /\ DOMAIN data' = DOMAIN data \cup {key}
            /\ \A k \in DOMAIN data : data'[k] = data[k]
            /\ key \notin DOMAIN data =>
                   data'[key] = [correct |-> 0, incorrect |-> 0]]_vars

\* a key of the DB click checker all of whose pairs lacked a DB: it has an
\* entry, with 0 correct and 0 incorrect
C21_Witness ==
    \E key \in DOMAIN data :
        /\ checker = "db"
        /\ ingested[key] > 0
        /\ excluded[key] = ingested[key]
        /\ data[key] = [correct |-> 0, incorrect |-> 0]

(***************************************************************************)
(* The runs of the sequential checkers as folds: run() of the DB click     *)
(* checker and of the dark-pattern checker applied to the same pairs in    *)
(* different processing orders.  What compare_single_target_subdir reads   *)
(* from the store for a pair is part of the pair.                          *)
(***************************************************************************)
\* the most pairs of one run
MaxWork == 2

\* the subsets of S with at most n elements
RECURSIVE SetsUpTo(_, _)
SetsUpTo(S, n) ==
    IF n = 0 THEN {{}}
    ELSE LET smaller == SetsUpTo(S, n - 1)
         IN  smaller \cup {r \cup {x} : r \in smaller, x \in S}

\* the pairs of the DB click checker: source subdir, target subdir, whether
\* both DBs are found and what compare_columns returns for their tables
DBItems ==
    {[src |-> s, tgt |-> t, has_dbs |-> h, matching |-> m] :
        s \in 1..MaxSourceRuns, t \in TgtSubdirs,
        h \in BOOLEAN, m \in BOOLEAN} \ 
    {[src |-> s, tgt |-> t, has_dbs |-> FALSE, matching |-> TRUE] :
        s \in 1..MaxSourceRuns, t \in TgtSubdirs}

\* the pairs of the dark-pattern checker: the corpus and site of the source
\* subdir, the target subdir, whether the minimal DB is found, match_found
\* and the order in which list(dp_intersection) yields the codes
DPItems ==
    {item \in
        UNION {{[is_fell_for_dp |-> f, site |-> s, tgt |-> t,
                 minimal_db |-> m, matched |-> x, codes |-> c] :
                    c \in Orders(DP_intersection(parse_dp_codes(s),
                                                 parse_dp_codes(target_site(t))))} :
               f \in BOOLEAN, s \in {SiteShopTosPopup, SiteShopXx},
               t \in DPTgtSubdirs, m \in BOOLEAN, x \in BOOLEAN} :
        item.matched => item.minimal_db}

\* the sets of pairs of one run: no pair twice
DBWorkloads ==
    {W \in SetsUpTo(DBItems, MaxWork) :
        \A a, b \in W : (a.src = b.src /\ a.tgt = b.tgt) => a = b}

DPWorkloads ==
    {W \in SetsUpTo(DPItems, MaxWork) :
        \A a, b \in W :
            (a.is_fell_for_dp = b.is_fell_for_dp /\ a.site = b.site /\ a.tgt = b.tgt)
                => a = b}

\* DBCorrectnessChecker.compare_single_target_subdir: self.data after the call
DB_compare_single_target_subdir(d, item) ==
    LET key == KeyOf(item.tgt)
        with_key == EnsureKey(d, key, [correct |-> 0, incorrect |-> 0])
    IN  IF ~item.has_dbs
        THEN with_key
        ELSE SetItem(with_key, key,
                 DB_record_verdict(with_key[key], item.matching, item.src, item.tgt))

\* DPComparisonChecker.compare_single_target_subdir: self.data after the call
\* and whether the call raised
DP_compare_single_target_subdir(d, item) ==
    LET key == KeyOf(item.tgt)
        with_key == EnsureKey(d, key,
                        [fell_for_dp |-> << >>, did_not_fall_for_dp |-> << >>,
                         source_dark_pattern |-> "", details |-> << >>])
        comparison_type == IF item.is_fell_for_dp THEN "fell_for_dp"
                           ELSE "did_not_fall_for_dp"
        source_codes == parse_dp_codes(item.site)
        target_codes == parse_dp_codes(target_site(item.tgt))
        dp_intersection == DP_intersection(source_codes, target_codes)
        target_site_category == parse_site_category(target_site(item.tgt))
    IN  IF DP_skips_comparison(dp_intersection) \/ ~item.minimal_db
        THEN [crashed |-> FALSE, data |-> with_key]
        ELSE IF target_site_category \notin DOMAIN site_dp_mapping
        THEN [crashed |-> TRUE, data |-> with_key]
        ELSE [crashed |-> FALSE,
              data |-> SetItem(with_key, key,
                 [DP_update_counters(with_key[key],
                      LabelsOfCategory(target_site_category),
                      map_dp_codes_to_labels(target_site_category, item.codes),
                      item.is_fell_for_dp, item.matched)
                  EXCEPT !.details = Append(@,
                      [comparison_type |-> comparison_type,
                       source_directory |-> <<comparison_type, item.site>>,
                       target_directory |-> item.tgt,
                       result |-> IF item.matched THEN "matched" ELSE "not_matched",
                       source_dark_pattern_codes |-> source_codes,
                       target_dark_pattern_codes |-> target_codes])])]

\* run(): the pairs are processed one after the other; an exception ends it
RECURSIVE RunInOrder(_, _, _)
RunInOrder(which, state, order) ==
    IF order = << >> \/ state.crashed THEN state
    ELSE LET after ==
                 IF which = "db"
                 THEN [crashed |-> FALSE,
                       data |-> DB_compare_single_target_subdir(state.data, Head(order))]
                 ELSE DP_compare_single_target_subdir(state.data, Head(order))
         IN  RunInOrder(which, after, Tail(order))

OrderInit ==
    /\ \/ workload \in {[checker |-> "db", items |-> W] : W \in DBWorkloads}
       \/ workload \in {[checker |-> "dp", items |-> W] : W \in DPWorkloads}
    /\ order_runs = << >>
    /\ ScratchIdle
    /\ AssertFnIdle
    /\ MatcherIdle
    /\ CombineIdle
    /\ MergeIdle
    /\ source_clicks = << >>
    /\ target_clicks = << >>
    /\ is_matching_db = "unset"
    /\ match_found = "unset"
    /\ RunIdle

\* DBCorrectnessChecker.run on the pairs of the workload, in some order
DBRunInOrder ==
    /\ workload.checker = "db"
    /\ Len(order_runs) < 2
    /\ \E order \in Orders(workload.items) :
           order_runs' = Append(order_runs,
               [order |-> order] @@
               RunInOrder("db", [crashed |-> FALSE, data |-> << >>], order))
    /\ UNCHANGED <<workload, scratch_vars, assert_fn_vars, matcher_vars, combine_vars,
                   merge_vars, click_vars, run_vars, pool_vars, dp_vars>>

\* DPComparisonChecker.run on the pairs of the workload, in some order
DPRunInOrder ==
    /\ workload.checker = "dp"
    /\ Len(order_runs) < 2
    /\ \E order \in Orders(workload.items) :
           order_runs' = Append(order_runs,
               [order |-> order] @@
               RunInOrder("dp", [crashed |-> FALSE, data |-> << >>], order))
    /\ UNCHANGED <<workload, scratch_vars, assert_fn_vars, matcher_vars, combine_vars,
                   merge_vars, click_vars, run_vars, pool_vars, dp_vars>>

OrderNext == DBRunInOrder \/ DPRunInOrder

OrderSpec == OrderInit /\ [][OrderNext]_vars

\* the counters of an aggregation map: every field but the detail list
CountersOf(d) ==
    [k \in DOMAIN d |-> [f \in DOMAIN d[k] \ {"details"} |-> d[k][f]]]

\* the detail records of an entry, as a bag: record -> how often it occurs
DetailBag(entry) ==
    IF "details" \in DOMAIN entry
    THEN [r \in ToSet(entry.details) |->
             Cardinality({i \in 1..Len(entry.details) : entry.details[i] = r})]
    ELSE << >>

DBFile(has_table, readable, rows) ==
    [has_table |-> has_table, readable |-> readable, rows |-> rows]

\* load_relavant_columns_from_db(db_path): {} without a table and on
\* sqlite3.Error, else the rows
load_relavant_columns_from_db(db) ==
    IF ~db.has_table THEN << >>
    ELSE IF ~db.readable THEN << >>
    ELSE db.rows

\* the DB files whose load gives the click list
DBFilesLoadingAs(clicks) ==
    {db \in {DBFile(h, r, ClickRows(c)) :
                h \in BOOLEAN, r \in BOOLEAN, c \in {clicks, << <<"//a", "">> >>}} :
        get_click_events(load_relavant_columns_from_db(db)) = clicks}

Unreadable(db) == ~db.has_table \/ ~db.readable

\* C24: a pair whose source or target DB table cannot be read, and so loads
\* as no events, is never counted as correct by the strict click checker and
\* never as matched by the dark-pattern checker.
C24_UnreadableNeverCorrectNorMatched ==
    \A src_db \in DBFilesLoadingAs(source_clicks),
       tgt_db \in DBFilesLoadingAs(target_clicks) :
        (Unreadable(src_db) \/ Unreadable(tgt_db)) =>
            /\ is_matching_db # "correct"
            /\ match_found # "matched"

(***************************************************************************)
(* C25: the dark-pattern checker and pairs with a DB missing               *)
(***************************************************************************)
\* the last call had common codes and found no minimal DB of the source
LastMissedMinimalDB == last.called /\ CommonCodes # {} /\ ~last.minimal_db

\* the last call had common codes, a minimal DB of the source and found no
\* maximal DB of the target
LastMissedMaximalDB ==
    last.called /\ CommonCodes # {} /\ last.minimal_db /\ ~last.maximal_db

\* the last call left every counter and every detail list as it was
LastChangedNoCounterNoDetail ==
    \A key \in Keys :
        /\ DetailsIn(data, key) = DetailsIn(last.before, key)
        /\ \A dir \in Directions, lbl \in AllLabels :
              /\ HasCounter(data, key, dir, lbl) = HasCounter(last.before, key, dir, lbl)
              /\ CounterValue(data, key, dir, lbl) = CounterValue(last.before, key, dir, lbl)

IsPrefix(a, b) == Len(a) <= Len(b) /\ SubSeq(b, 1, Len(a)) = a

EntryDetails(entry) == IF "details" \in DOMAIN entry THEN entry.details ELSE << >>

\* the entry after a step holds what the entry before it held: no counter is
\* lower and the detail list begins with the old detail list
EntryGrew(old, new) ==
    /\ IsPrefix(EntryDetails(old), EntryDetails(new))
    /\ IF "correct" \in DOMAIN old
       THEN /\ old.correct <= new.correct
            /\ old.incorrect <= new.incorrect
       ELSE \A dir \in Directions :
                \A lbl \in DOMAIN old[dir] :
                    /\ lbl \in DOMAIN new[dir]
                    /\ old[dir][lbl] <= new[dir][lbl]

\* C26: in every step of an evaluation pass no existing key is removed or
\* re-initialised, every counter is non-decreasing and every detail list only
\* gains records at its end.
C26_EntriesOnlyGrow ==
    [][\A key \in DOMAIN data :
           /\ key \in DOMAIN data'
           /\ EntryGrew(data[key], data'[key])]_vars

(***************************************************************************)
(* combine_results in verbose mode: the combined detail list of one key.   *)
(* A directory is the list of the segments of its path; only the details   *)
(* fields of the four dicts are read.                                      *)
(***************************************************************************)
\* the longest detail list of a checker
MaxDetails == 2

\* the key whose details are combined
VerboseKey == KeyOf("t1")

\* first index of the token in the path, 0 without one
FirstIndexOf(path, token) ==
    IF \E i \in 1..Len(path) : path[i] = token
    THEN CHOOSE i \in 1..Len(path) :
             path[i] = token /\ \A j \in 1..(i - 1) : path[j] # token
    ELSE 0

normalize_dp_source_Identity(src) == src

\* normalize_dp_source(src): what follows the first token found in src
normalize_dp_source(src) ==
    IF FirstIndexOf(src, "fell_for_dp") > 0
    THEN SubSeq(src, FirstIndexOf(src, "fell_for_dp") + 1, Len(src))
    ELSE IF FirstIndexOf(src, "did_not_fall_for_dp") > 0
    THEN SubSeq(src, FirstIndexOf(src, "did_not_fall_for_dp") + 1, Len(src))
    ELSE src

\* the detail records the binary checkers append
BinaryDetail(src, tgt, result) ==
    [source_directory |-> src, target_directory |-> tgt, result |-> result]

\* the detail records the dark-pattern checker appends
DPDetail(src, tgt, result) ==
    [source_directory |-> src, target_directory |-> tgt, result |-> result,
     source_dark_pattern_codes |->
         IF src[1] = "fell_for_dp" THEN << <<"tos">>, <<"popup">> >>
         ELSE << <<"popup">> >>]

DBDetailLists ==
    SeqsUpTo({BinaryDetail(<<"run1">>, "t1", "correct"),
              BinaryDetail(<<"run1">>, "t1", "incorrect"),
              BinaryDetail(<<"src", "run1">>, "t1", "correct")}, MaxDetails)

AssertionDetailLists == {<< >>, <<BinaryDetail(<<"run1">>, "t2", "correct")>>}

ScratchpadDetailLists == {<< >>, <<BinaryDetail(<<"run1">>, "t1", "incorrect")>>}

DPDetailLists ==
    SeqsUpTo({DPDetail(<<"fell_for_dp", "run1">>, "t1", "matched"),
              DPDetail(<<"did_not_fall_for_dp", "run1">>, "t1", "not_matched"),
              DPDetail(<<"did_not_fall_for_dp", "run2">>, "t1", "matched")}, MaxDetails)

\* a dict of combine_results with the key's details, or without the key
WithDetails(lists) == {<< >>} \cup {(VerboseKey :> [details |-> l]) : l \in lists}

\* correctness_dict.get(key, {}).get("details", [])
DetailsOfKey(dict, key) == IF key \in DOMAIN dict THEN dict[key].details ELSE << >>

\* a result of run_detail: absent, or the result string
NoResult == [present |-> FALSE, value |-> ""]

Result(v) == [present |-> TRUE, value |-> v]

\* for d in details: if d matches (src, tgt): take d's result; break
RECURSIVE first_result(_, _, _)
first_result(details, src, tgt) ==
    IF details = << >> THEN NoResult
    ELSE IF Head(details).source_directory = src /\ Head(details).target_directory = tgt
    THEN Result(Head(details).result)
    ELSE first_result(Tail(details), src, tgt)

\* combined_keys: the pairs of the non-dp details and the normalized pairs
\* of the dp details
combined_keys(db_details, assertion_details, scratchpad_details, dp_details) ==
    {<<d.source_directory, d.target_directory>> :
        d \in ToSet(db_details \o assertion_details \o scratchpad_details)}
    \cup {<<normalize_dp_source(d.source_directory), d.target_directory>> :
             d \in ToSet(dp_details)}

\* run_detail for one (src, tgt) of combined_keys
run_detail(db_details, assertion_details, scratchpad_details, dp_details, src, tgt) ==
    LET grouped_dp ==
            SelectSeq(dp_details,
                LAMBDA p : normalize_dp_source(p.source_directory) = src
                           /\ p.target_directory = tgt)
    IN  [source_directory |-> src,
         target_directory |-> tgt,
         db |-> first_result(db_details, src, tgt),
         assertion |-> first_result(assertion_details, src, tgt),
         scratchpad |-> first_result(scratchpad_details, src, tgt),
         dp |-> IF grouped_dp = << >>
                THEN [present |-> FALSE, source_directories |-> << >>,
                      results |-> << >>, codes |-> {}]
                ELSE [present |-> TRUE,
                      source_directories |->
                          [i \in 1..Len(grouped_dp) |-> grouped_dp[i].source_directory],
                      results |-> [i \in 1..Len(grouped_dp) |-> grouped_dp[i].result],
                      codes |-> UNION {ToSet(grouped_dp[i].source_dark_pattern_codes) :
                                          i \in 1..Len(grouped_dp)}]]

VerboseInit ==
    /\ checker_data \in
          [db : WithDetails(DBDetailLists),
           assertion : WithDetails(AssertionDetailLists),
           scratchpad : WithDetails(ScratchpadDetailLists),
           dp : WithDetails(DPDetailLists)]
    /\ report = [written |-> FALSE, rows |-> << >>]
    /\ ScratchIdle
    /\ AssertFnIdle
    /\ MatcherIdle
    /\ FnIdle
    /\ source_clicks = << >>
    /\ target_clicks = << >>
    /\ is_matching_db = "unset"
    /\ match_found = "unset"
    /\ RunIdle

\* combine_results with verbose set, for the key: details_list is built from
\* combined_keys, a set iterated in some order
CombineResultsVerbose ==
    /\ ~report.written
    /\ LET db_details == DetailsOfKey(checker_data.db, VerboseKey)
           assertion_details == DetailsOfKey(checker_data.assertion, VerboseKey)
           scratchpad_details == DetailsOfKey(checker_data.scratchpad, VerboseKey)
           dp_details == DetailsOfKey(checker_data.dp, VerboseKey)
       IN  \E order \in Orders(combined_keys(db_details, assertion_details,
                                            scratchpad_details, dp_details)) :
               report' = [written |-> TRUE,
                          rows |-> [i \in 1..Len(order) |->
                              run_detail(db_details, assertion_details,
                                         scratchpad_details, dp_details,
                                         order[i][1], order[i][2])]]
    /\ UNCHANGED <<checker_data, scratch_vars, assert_fn_vars, matcher_vars,
                   click_vars, run_vars, pool_vars, dp_vars, fn_vars>>

VerboseNext == CombineResultsVerbose

VerboseSpec == VerboseInit /\ [][VerboseNext]_vars

\* the source directory of a dp detail without everything up to and including
\* the corpus token
DropThroughToken(src) ==
    LET at == {i \in 1..Len(src) : src[i] \in {"fell_for_dp", "did_not_fall_for_dp"}}
    IN  IF at = {} THEN src
        ELSE LET first == CHOOSE i \in at : \A j \in at : i <= j
             IN  [k \in 1..(Len(src) - first) |-> src[first + k]]

BinaryCheckers == {"db", "assertion", "scratchpad"}

\* the details a binary checker has for the pair
DetailsForPair(which, src, tgt) ==
    {d \in ToSet(DetailsOfKey(checker_data[which], VerboseKey)) :
        d.source_directory = src /\ d.target_directory = tgt}

\* the details the dark-pattern checker has for the pair
DPDetailsForPair(src, tgt) ==
    {d \in ToSet(DetailsOfKey(checker_data.dp, VerboseKey)) :
        DropThroughToken(d.source_directory) = src /\ d.target_directory = tgt}

\* the pairs occurring in any checker's details for the key
PairsOfAnyChecker ==
    UNION {{<<d.source_directory, d.target_directory>> :
               d \in ToSet(DetailsOfKey(checker_data[which], VerboseKey))} :
           which \in BinaryCheckers}
    \cup {<<DropThroughToken(d.source_directory), d.target_directory>> :
             d \in ToSet(DetailsOfKey(checker_data.dp, VerboseKey))}

\* C27: in verbose mode the combined detail list of a key has exactly one
\* record for each distinct (source_directory, target_directory) pair of any
\* checker's details for the key, the source directory of a dp detail taken
\* without everything up to and including the corpus token; no pair appears
\* twice, and each record carries the result of every checker that has a
\* detail for the pair.
C27_VerboseDetails ==
    report.written =>
        LET rows == report.rows
        IN  /\ {<<rows[i].source_directory, rows[i].target_directory>> :
                   i \in 1..Len(rows)} = PairsOfAnyChecker
            /\ \A i, j \in 1..Len(rows) :
                   (rows[i].source_directory = rows[j].source_directory
                    /\ rows[i].target_directory = rows[j].target_directory) => i = j
            /\ \A i \in 1..Len(rows) :
                   LET src == rows[i].source_directory
                       tgt == rows[i].target_directory
                   IN  /\ \A which \in BinaryCheckers :
                              IF DetailsForPair(which, src, tgt) = {}
                              THEN ~rows[i][which].present
                              ELSE /\ rows[i][which].present
                                   /\ \E d \in DetailsForPair(which, src, tgt) :
                                          d.result = rows[i][which].value
                       /\ IF DPDetailsForPair(src, tgt) = {}
                          THEN ~rows[i].dp.present
                          ELSE /\ rows[i].dp.present
                               /\ \A d \in DPDetailsForPair(src, tgt) :
                                      \E n \in 1..Len(rows[i].dp.results) :
                                          /\ rows[i].dp.results[n] = d.result
                                          /\ rows[i].dp.source_directories[n] =
                                                 d.source_directory

\* the db detail of run1 and the dp details of both corpora for run1 are
\* combined in one record; the assertion detail for another target has its own
C27_Witness ==
    /\ report.written
    /\ Len(report.rows) = 2
    /\ \E i \in 1..2 :
           /\ report.rows[i].source_directory = <<"run1">>
           /\ report.rows[i].target_directory = "t1"
           /\ report.rows[i].db = Result("correct")
           /\ report.rows[i].dp.present
           /\ report.rows[i].dp.results = <<"matched", "not_matched">>
           /\ ~report.rows[i].assertion.present
    /\ \E i \in 1..2 :
           /\ report.rows[i].target_directory = "t2"
           /\ report.rows[i].assertion = Result("correct")
           /\ ~report.rows[i].db.present

(***************************************************************************)
(* The assertion merge step: merge_playwright_scripts.  A script line is   *)
(* a record of what the regular expressions of the module tell apart: a    *)
(* page.click with its selector, an "await expect(" or "assert " line, a   *)
(* def line, or another line; "from" is the script the line was read from. *)
(* Line indexes count from 0 as in the code.                               *)
(***************************************************************************)
\* the longest target script
MaxLines == 3

\* the most rows of a DB table
MaxRows == 2

ClickLine(sel, from) == [kind |-> "click", sel |-> sel, from |-> from]

AssertionLine(text, from) == [kind |-> "assertion", sel |-> text, from |-> from]

DefLine(from) == [kind |-> "def", sel |-> "", from |-> from]

OtherLine(from) == [kind |-> "other", sel |-> "", from |-> from]

\* the commands scripts of the source runs
SourceScripts ==
    {<< >>,
     <<ClickLine("#cart", "A"), AssertionLine("e1", "A")>>,
     <<ClickLine("//a", "A"), AssertionLine("e1", "A"), AssertionLine("e2", "A")>>,
     <<ClickLine("#cart", "A"), ClickLine("//a", "A"), AssertionLine("e1", "A")>>,
     <<ClickLine("#cart", "A"), OtherLine("A"), AssertionLine("e1", "A"),
       DefLine("A"), AssertionLine("e2", "A")>>,
     <<ClickLine("#cart", "A"), AssertionLine("e1", "A"),
       ClickLine("//a", "A"), AssertionLine("e2", "A")>>}

\* the commands scripts of the target runs
TargetScripts ==
    SeqsUpTo({ClickLine("#cart", "B"), ClickLine("//a", "B"), OtherLine("B")}, MaxLines)

\* the tables of the source DBs and of the target DBs; the id of a row is
\* its position
SourceTables ==
    SeqsUpTo({Row("click", "", "cart"), Row("click", "//a", ""),
              Row("input", "//a", "cart")}, MaxRows)

TargetTables ==
    SeqsUpTo({Row("click", "//a", "#cart"), Row("click", "//a", "cart")}, MaxRows)

\* find_click_line_indexes(lines): selector -> index of its last click line
find_click_line_indexes(lines) ==
    LET sels == {lines[i].sel : i \in {j \in 1..Len(lines) : lines[j].kind = "click"}}
    IN  [s \in sels |->
            (CHOOSE i \in 1..Len(lines) :
                /\ lines[i].kind = "click" /\ lines[i].sel = s
                /\ \A j \in (i + 1)..Len(lines) :
                       ~(lines[j].kind = "click" /\ lines[j].sel = s)) - 1]

\* convert_db_row_to_selector(row_data); "" stands for None
convert_db_row_to_selector(row_data) ==
    LET el_id == row_data.element_id
        xp == row_data.xpath
    IN  IF el_id \in {"#cart", "#root"} THEN el_id
        ELSE IF el_id # "" THEN (IF el_id = "cart" THEN "#cart" ELSE "#root")
        ELSE IF xp # "" THEN xp
        ELSE ""

\* find_assertion_lines_after(lines, start_idx): the while loop from index i
RECURSIVE find_assertion_lines_from(_, _)
find_assertion_lines_from(lines, i) ==
    IF i >= Len(lines) THEN << >>
    ELSE LET line == lines[i + 1]
         IN  IF line.kind \in {"click", "def"} THEN << >>
             ELSE IF line.kind = "assertion"
             THEN <<line>> \o find_assertion_lines_from(lines, i + 1)
             ELSE find_assertion_lines_from(lines, i + 1)

find_assertion_lines_after(lines, start_idx) ==
    find_assertion_lines_from(lines, start_idx + 1)

insert_lines_after_index_Before(original_lines, idx, new_lines) ==
    SubSeq(original_lines, 1, idx) \o new_lines
        \o SubSeq(original_lines, idx + 1, Len(original_lines))

\* insert_lines_after_index(original_lines, idx, new_lines)
insert_lines_after_index(original_lines, idx, new_lines) ==
    IF new_lines = << >> THEN original_lines
    ELSE IF idx >= Len(original_lines) - 1 THEN original_lines \o new_lines
    ELSE SubSeq(original_lines, 1, idx + 1) \o new_lines
             \o SubSeq(original_lines, idx + 2, Len(original_lines))

\* the inner loop of merge_playwright_scripts: the id of the first click row
\* of the target table that shares the element_id or the xpath, 0 for None
RECURSIVE matched_pkB(_, _, _)
matched_pkB(rowA, target_rows, pkB) ==
    IF pkB > Len(target_rows) THEN 0
    ELSE LET rowB == target_rows[pkB]
         IN  IF rowB.event_type # "click" THEN matched_pkB(rowA, target_rows, pkB + 1)
             ELSE IF (rowA.element_id # "" /\ rowA.element_id = rowB.element_id)
                     \/ (rowA.xpath # "" /\ rowA.xpath = rowB.xpath)
             THEN pkB
             ELSE matched_pkB(rowA, target_rows, pkB + 1)

\* the outer loop of merge_playwright_scripts from the row with id pkA on:
\* the list inserts
RECURSIVE collect_inserts(_, _, _, _, _)
collect_inserts(source_rows, target_rows, source_lines, target_lines, pkA) ==
    IF pkA > Len(source_rows) THEN << >>
    ELSE LET rowA == source_rows[pkA]
             rest == collect_inserts(source_rows, target_rows, source_lines,
                                     target_lines, pkA + 1)
             src_click_map == find_click_line_indexes(source_lines)
             tgt_click_map == find_click_line_indexes(target_lines)
             src_sel == convert_db_row_to_selector(rowA)
             pkB == matched_pkB(rowA, target_rows, 1)
         IN  IF rowA.event_type # "click" THEN rest
             ELSE IF src_sel = "" \/ src_sel \notin DOMAIN src_click_map THEN rest
             ELSE IF pkB = 0 THEN rest
             ELSE LET tgt_sel == convert_db_row_to_selector(target_rows[pkB])
                  IN  IF tgt_sel = "" \/ tgt_sel \notin DOMAIN tgt_click_map THEN rest
                      ELSE LET assertion_lines ==
                                   find_assertion_lines_after(source_lines,
                                                              src_click_map[src_sel])
                           IN  IF assertion_lines = << >> THEN rest
                               ELSE <<[idx |-> tgt_click_map[tgt_sel],
                                       lines |-> assertion_lines]>> \o rest

\* inserts.sort(key=lambda x: x[0]): stable, by ascending line index
RECURSIVE sort_inserts(_, _, _)
sort_inserts(inserts, idx, last_idx) ==
    IF idx > last_idx THEN << >>
    ELSE SelectSeq(inserts, LAMBDA x : x.idx = idx)
             \o sort_inserts(inserts, idx + 1, last_idx)

\* the loop over the sorted inserts
RECURSIVE apply_inserts(_, _, _)
apply_inserts(lines, shift, inserts) ==
    IF inserts = << >> THEN lines
    ELSE LET real_idx == Head(inserts).idx + shift
         IN  apply_inserts(
                 insert_lines_after_index(lines, real_idx, Head(inserts).lines),
                 shift + Len(Head(inserts).lines), Tail(inserts))

\* merge_playwright_scripts(source_data, target_data, source_lines, target_lines)
merge_playwright_scripts(source_rows, target_rows, source_lines, target_lines) ==
    LET inserts == sort_inserts(
                       collect_inserts(source_rows, target_rows, source_lines,
                                       target_lines, 1),
                       0, Len(target_lines))
    IN  IF inserts = << >>
        THEN [none |-> TRUE, lines |-> << >>]
        ELSE [none |-> FALSE, lines |-> apply_inserts(target_lines, 0, inserts)]

MergeInit ==
    /\ merge_input \in [source_data : SourceTables, target_data : TargetTables,
                        source_lines : SourceScripts, target_lines : TargetScripts]
    /\ merge_output = [called |-> FALSE]
    /\ ScratchIdle
    /\ AssertFnIdle
    /\ MatcherIdle
    /\ CombineIdle
    /\ OrderIdle
    /\ source_clicks = << >>
    /\ target_clicks = << >>
    /\ is_matching_db = "unset"
    /\ match_found = "unset"
    /\ RunIdle

\* merged_lines = merge_playwright_scripts(...)
MergePlaywrightScripts ==
    /\ ~merge_output.called
    /\ merge_output' =
          [called |-> TRUE] @@
          merge_playwright_scripts(merge_input.source_data, merge_input.target_data,
                                   merge_input.source_lines, merge_input.target_lines)
    /\ UNCHANGED <<merge_input, scratch_vars, assert_fn_vars, matcher_vars, combine_vars,
                   order_vars, click_vars, run_vars, pool_vars, dp_vars>>

MergeNext == MergePlaywrightScripts

MergeSpec == MergeInit /\ [][MergeNext]_vars

\* the insertions of the call: target click line index and assertion block,
\* in the order of the source clicks
InsertionsOfCall ==
    collect_inserts(merge_input.source_data, merge_input.target_data,
                    merge_input.source_lines, merge_input.target_lines, 1)

RECURSIVE ConcatBlocks(_)
ConcatBlocks(inserts) ==
    IF inserts = << >> THEN << >>
    ELSE Head(inserts).lines \o ConcatBlocks(Tail(inserts))

\* the position in the merged script of the target line with index t
PositionOfTargetLine(merged, t) ==
    CHOOSE p \in 1..Len(merged) :
        /\ merged[p].from = "B"
        /\ Cardinality({q \in 1..p : merged[q].from = "B"}) = t + 1

\* the lines of the merged script between the target line with index t and
\* the next target line
LinesAfterTargetLine(merged, t) ==
    LET p == PositionOfTargetLine(merged, t)
        later == {q \in (p + 1)..Len(merged) : merged[q].from = "B"}
        next == IF later = {} THEN Len(merged) + 1
                ELSE CHOOSE q \in later : \A r \in later : q <= r
    IN  SubSeq(merged, p + 1, next - 1)

\* the selectors of the target click rows matched by a click row of the source
MatchedTargetSelectors ==
    {convert_db_row_to_selector(
         merge_input.target_data[matched_pkB(merge_input.source_data[a],
                                             merge_input.target_data, 1)]) :
        a \in {b \in 1..Len(merge_input.source_data) :
                  /\ merge_input.source_data[b].event_type = "click"
                  /\ matched_pkB(merge_input.source_data[b],
                                 merge_input.target_data, 1) # 0}}

RunStep == Submit \/ SubmitDone \/ FutureResult \/ ExecutorShutdown

AssertFairSpec == AssertSpec /\ WF_vars(RunStep)

\* run() has ended: finalize_reports was reached, or an exception left run()
RunEnded == pc \in {"finalized", "crashed"}

\* every submitted task ran to its end without an exception
AllTasksDone == \A w \in 1..Len(workers) : workers[w].pc = "done"

Tagged(key, tag) ==
    Cardinality({i \in 1..Len(DetailsOf(key)) : DetailsOf(key)[i].result = tag})

\* C30: in the DB click checker and the scratchpad checker, for every key the
\* number of detail records equals correct + incorrect, the number of details
\* tagged "correct" equals the correct counter and the number tagged
\* "incorrect" equals the incorrect counter.
C30_CountersMatchDetails ==
    checker \in {"db", "scratchpad"} =>
        \A key \in DOMAIN data :
            /\ Len(DetailsOf(key)) = data[key].correct + data[key].incorrect
            /\ Tagged(key, "correct") = data[key].correct
            /\ Tagged(key, "incorrect") = data[key].incorrect

\* a key of the scratchpad checker with two correct pairs and an incorrect one
C30_Witness ==
    \E key \in DOMAIN data :
        /\ checker = "scratchpad"
        /\ data[key].correct = 2
        /\ data[key].incorrect = 1
        /\ Len(DetailsOf(key)) = 3

====
